---- MODULE Spec2Model ----
(***************************************************************************)
(* A model of burnman/tools/chemistry.py: the formula parser, the          *)
(* site-formula parser and renderer, and the chemical-potential solver.    *)
(*                                                                         *)
(* Strings are sequences of one-character strings, so that the regular     *)
(* expressions of the source are modelled by what they match.  Amounts     *)
(* (fractions.Fraction and the floats they are mixed with) are exact       *)
(* rationals <<n, d>> in lowest terms with d > 0; floating-point rounding  *)
(* is outside the model.  A dict is a sequence of <<key, value>> pairs in  *)
(* insertion order, as a Python dict iterates; its keys (element and       *)
(* species names) are character sequences too.                             *)
(***************************************************************************)
EXTENDS Integers, Sequences, FiniteSets, TLC

VARIABLES
    tokens,          \* the element tokens the caller wrote (what dict_formula spells)
    dict_formula,    \* argument of dictionarize_formula: the string
    f,               \* value returned by dictionarize_formula
    dict_status,     \* "none" | "returned" | the exception raised
    src,             \* the site groups the caller wrote (ground truth of formulas)
    solution_model,  \* the object handed to process_solution_chemistry
    site_status,     \* "none" | "returned" | the exception process_solution_chemistry raised
    render_args,     \* the site_multiplicities given to site_occupancies_to_strings
    site_formulae,   \* value returned by site_occupancies_to_strings
    render_raised,   \* outcome of the last site_occupancies_to_strings call
    assemblage,      \* argument of chemical_potentials: the minerals
    component_formulae, \* argument of chemical_potentials: the components
    chem_status,     \* outcome of the last chemical_potentials call
    array_formulae,  \* argument of (ordered_)compositional_array: the formulae
    array_elements,  \* argument of ordered_compositional_array: the elements
    array_call,      \* the last (ordered_)compositional_array call and its outcome
    string_formula,  \* argument of formula_to_string: the mapping
    string_call,     \* the last formula_to_string call and the string it returned
    objects,         \* the heap: the mappings and the list a caller holds, by identity
    obj_call,        \* the last formula operation called on them and its outcome
    rf,              \* the root-finder call in progress: the function and its arguments
    rf_pc,           \* "idle" | "solve" (inside fsolve) | "done"
    mineral_state,   \* per mineral object, the (P, T) of its last set_state
    solver,          \* fsolve: its iterate x, its evaluations so far, its last call of func
    hug,             \* hugoniot's locals: U_ref, V_ref, temperatures, volumes, the loop index
    rf_trace,        \* what the body of the call did outside fsolve, in order
    rf_out,          \* what the call gave back to its caller
    sharing,         \* how two concurrent calls use minerals: "shared" | "separate" | "locked"
    instances,       \* per mineral instance, the (P, T) of its last set_state
    threads,         \* per thread, where its root-finder call stands
    lock             \* the thread holding the callers' lock, 0 if none

vars == <<tokens, dict_formula, f, dict_status, src, solution_model, site_status,
          render_args, site_formulae, render_raised,
          assemblage, component_formulae, chem_status,
          array_formulae, array_elements, array_call,
          string_formula, string_call, objects, obj_call,
          rf, rf_pc, mineral_state, solver, hug, rf_trace, rf_out,
          sharing, instances, threads, lock>>

dictVars == <<tokens, dict_formula, f, dict_status>>
siteVars == <<src, solution_model, site_status, render_args, site_formulae, render_raised>>
chemVars == <<assemblage, component_formulae, chem_status>>
arrayVars == <<array_formulae, array_elements, array_call>>

\* The variables of the functions modelled after the first three.
stringVars == <<string_formula, string_call>>
objVars == <<objects, obj_call>>
rootVars == <<rf, rf_pc, mineral_state, solver, hug, rf_trace, rf_out>>
concVars == <<sharing, instances, threads, lock>>
laterVars == <<arrayVars, stringVars, objVars, rootVars, concVars>>
\* The variables other than those of one group.
notArray == <<stringVars, objVars, rootVars, concVars>>
notString == <<arrayVars, objVars, rootVars, concVars>>
notObj == <<arrayVars, stringVars, rootVars, concVars>>
notRoot == <<arrayVars, stringVars, objVars, concVars>>
notConc == <<arrayVars, stringVars, objVars, rootVars>>
\* The variables of the first three.
coreVars == <<dictVars, siteVars, chemVars>>

----------------------------------------------------------------------------
(* Bounds of the model *)

MaxTokens == 3      \* element tokens in one flat formula string
MaxMbr == 2         \* endmember formulas in one solution model
MaxMinerals == 3    \* minerals in one assemblage
MaxComponents == 2  \* component formulae in one chemical_potentials call
MaxFormulae == 3    \* formulae in one compositional_array call
MaxKeys == 3        \* keys of the mapping given to formula_to_string
MaxPressures == 2   \* entries of the pressures given to hugoniot
MaxEvals == 3       \* calls of the residual function in one fsolve

----------------------------------------------------------------------------
(* Exact rational arithmetic: fractions.Fraction *)

Abs(x) == IF x < 0 THEN -x ELSE x

RECURSIVE GCD(_, _)
GCD(a, b) == IF b = 0 THEN a ELSE GCD(b, a % b)

Norm(n, d) ==
    LET g == GCD(Abs(n), Abs(d))
        s == IF d < 0 THEN -1 ELSE 1
    IN  <<(s * n) \div g, (s * d) \div g>>

Zero == <<0, 1>>
One == <<1, 1>>
RAdd(a, b) == Norm(a[1] * b[2] + b[1] * a[2], a[2] * b[2])
RSub(a, b) == Norm(a[1] * b[2] - b[1] * a[2], a[2] * b[2])
RMul(a, b) == Norm(a[1] * b[1], a[2] * b[2])
RDiv(a, b) == Norm(a[1] * b[2], a[2] * b[1])
RLt(a, b) == a[1] * b[2] < b[1] * a[2]
RAbs(a) == <<Abs(a[1]), a[2]>>

----------------------------------------------------------------------------
(* Characters and the regular expressions of the parsers *)

Upper == {"A", "B", "C", "D", "E", "F", "G", "H", "I", "J", "K", "L", "M",
          "N", "O", "P", "Q", "R", "S", "T", "U", "V", "W", "X", "Y", "Z"}
Digit == {"0", "1", "2", "3", "4", "5", "6", "7", "8", "9"}

DigitVal(c) ==
    CASE c = "0" -> 0 [] c = "1" -> 1 [] c = "2" -> 2 [] c = "3" -> 3
      [] c = "4" -> 4 [] c = "5" -> 5 [] c = "6" -> 6 [] c = "7" -> 7
      [] c = "8" -> 8 [] c = "9" -> 9

\* First index >= i of s holding a character of class C, Len(s)+1 if none.
RECURSIVE NextIn(_, _, _)
NextIn(s, i, C) ==
    IF i > Len(s) THEN Len(s) + 1
    ELSE IF s[i] \in C THEN i ELSE NextIn(s, i + 1, C)

\* re.findall('[A-Z][^A-Z]*', s): one chunk per uppercase letter, running up
\* to the next uppercase letter; what precedes the first one is dropped.
RECURSIVE FindallFrom(_, _)
FindallFrom(s, i) ==
    LET b == NextIn(s, i, Upper)
        e == NextIn(s, b + 1, Upper)
    IN  IF b > Len(s) THEN <<>>
        ELSE <<SubSeq(s, b, e - 1)>> \o FindallFrom(s, e)

FindallElements(s) == FindallFrom(s, 1)

\* re.split('[0-9][^A-Z]*', element)[0] on a chunk: what precedes its first digit.
NamePart(element) == SubSeq(element, 1, NextIn(element, 1, Digit) - 1)

\* re.findall('[0-9][^A-Z]*', element) on a chunk: empty, or first the text
\* from its first digit to its end.
AmountPart(element) == SubSeq(element, NextIn(element, 1, Digit), Len(element))

IsDigits(s) == Len(s) > 0 /\ \A i \in 1..Len(s) : s[i] \in Digit

RECURSIVE ToInt(_)
ToInt(s) ==
    IF s = <<>> THEN 0
    ELSE 10 * ToInt(SubSeq(s, 1, Len(s) - 1)) + DigitVal(s[Len(s)])

RECURSIVE Pow10(_)
Pow10(k) == IF k = 0 THEN 1 ELSE 10 * Pow10(k - 1)

\* Fraction(text) for text over digits, '/' and '.': an integer, a ratio
\* n/d or a decimal; [ok |-> FALSE] carries the exception otherwise.
\* A faulty Fraction that reads the leading digits and drops the rest.
FractionLenient(text) ==
    [ok |-> TRUE,
     val |-> <<ToInt(SubSeq(text, 1, NextIn(text, 1, {"/", ".", "x"}) - 1)), 1>>]

Fraction(text) ==
    LET slash == NextIn(text, 1, {"/"})
        dot == NextIn(text, 1, {"."})
        num == SubSeq(text, 1, slash - 1)
        den == SubSeq(text, slash + 1, Len(text))
        whole == SubSeq(text, 1, dot - 1)
        dec == SubSeq(text, dot + 1, Len(text))
    IN  IF IsDigits(text) THEN [ok |-> TRUE, val |-> <<ToInt(text), 1>>]
        ELSE IF slash <= Len(text) /\ IsDigits(num) /\ IsDigits(den)
        THEN IF ToInt(den) = 0
             THEN [ok |-> FALSE, err |-> "ZeroDivisionError"]
             ELSE [ok |-> TRUE, val |-> Norm(ToInt(num), ToInt(den))]
        ELSE IF /\ dot <= Len(text)
                /\ whole = <<>> \/ IsDigits(whole)
                /\ dec = <<>> \/ IsDigits(dec)
                /\ whole # <<>> \/ dec # <<>>
        THEN [ok |-> TRUE,
              val |-> Norm(ToInt(whole) * Pow10(Len(dec)) + ToInt(dec), Pow10(Len(dec)))]
        ELSE [ok |-> FALSE, err |-> "ValueError"]

----------------------------------------------------------------------------
(* Dicts in insertion order *)

\* A Python list: the sequence q with every entry evaluated, so that a later
\* item assignment replaces exactly one entry.
List(q) == SubSeq(q, 1, Len(q))

Keys(d) == {d[i][1] : i \in 1..Len(d)}

\* d.get(k, default)
Get(d, k, default) ==
    IF k \in Keys(d)
    THEN d[CHOOSE i \in 1..Len(d) : d[i][1] = k][2]
    ELSE default

\* d[k] = v
Put(d, k, v) ==
    IF k \in Keys(d)
    THEN List([i \in 1..Len(d) |-> IF d[i][1] = k THEN <<k, v>> ELSE d[i]])
    ELSE Append(d, <<k, v>>)

\* A faulty accumulation: f[name] = atoms in place of f.get(name, 0.0) + atoms.
AccumulateOverwrites(d, k, v) == Put(d, k, v)

\* d[k] = d.get(k, 0.0) + v
Accumulate(d, k, v) == Put(d, k, RAdd(Get(d, k, Zero), v))

----------------------------------------------------------------------------
(* dictionarize_formula *)

\* One pass of the loop over elements; acc is [raised, f].
DictStep(acc, element) ==
    LET element_name == NamePart(element)
        element_atoms == IF AmountPart(element) = <<>>
                         THEN [ok |-> TRUE, val |-> One]
                         ELSE Fraction(AmountPart(element))
    IN  IF acc.raised # "" THEN acc
        ELSE IF ~element_atoms.ok THEN [raised |-> element_atoms.err, f |-> acc.f]
        ELSE [raised |-> "", f |-> Accumulate(acc.f, element_name, element_atoms.val)]

RECURSIVE DictLoop(_, _)
DictLoop(acc, elements) ==
    IF elements = <<>> THEN acc
    ELSE DictLoop(DictStep(acc, Head(elements)), Tail(elements))

dictionarize_formula(s) == DictLoop([raised |-> "", f |-> <<>>], FindallElements(s))

----------------------------------------------------------------------------
(* process_solution_chemistry *)

Range(q) == {q[i] : i \in 1..Len(q)}

\* q.index(x)
IndexOf(q, x) == CHOOSE i \in 1..Len(q) : q[i] = x /\ \A j \in 1..(i - 1) : q[j] # x

\* s.count(c)
RECURSIVE Count(_, _)
Count(s, c) ==
    IF s = <<>> THEN 0
    ELSE (IF Head(s) = c THEN 1 ELSE 0) + Count(Tail(s), c)

\* re.split(c, s) for a one-character pattern: the pieces between the c's.
RECURSIVE Split(_, _)
Split(s, c) ==
    LET k == NextIn(s, 1, {c})
    IN  IF k > Len(s) THEN <<s>>
        ELSE <<SubSeq(s, 1, k - 1)>> \o Split(SubSeq(s, k + 1, Len(s)), c)

\* ''.join(qs[lo..hi]), halving the range.
RECURSIVE ConcatRange(_, _, _)
ConcatRange(qs, lo, hi) ==
    IF lo > hi THEN <<>>
    ELSE IF lo = hi THEN qs[lo]
    ELSE LET mid == (lo + hi) \div 2
         IN  ConcatRange(qs, lo, mid) \o ConcatRange(qs, mid + 1, hi)

Concat(qs) == ConcatRange(qs, 1, Len(qs))

\* s.startswith(sub) at index i
MatchAt(s, i, sub) ==
    /\ i + Len(sub) - 1 <= Len(s)
    /\ \A k \in 1..Len(sub) : s[i + k - 1] = sub[k]

\* s.replace(sub, '', 1): s without the first occurrence of sub.
Replace1(s, sub) ==
    IF \E i \in 1..(Len(s) + 1) : MatchAt(s, i, sub)
    THEN LET i == CHOOSE i \in 1..(Len(s) + 1) :
                     MatchAt(s, i, sub) /\ \A j \in 1..(i - 1) : ~MatchAt(s, j, sub)
         IN  SubSeq(s, 1, i - 1) \o SubSeq(s, i + Len(sub), Len(s))
    ELSE s

\* str(filter(None, text)): under Python 3 filter() returns an iterator and
\* str() gives its repr, '<filter object at 0x...>', whatever text holds;
\* the address is the interpreter's choice.
FilterAddrs == {<<"7", "f", "3", "a", "1", "2", "c", "0">>,
                <<"7", "f", "9", "b", "e", "4", "d", "8">>}

FilterRepr(text, addr) ==
    <<"<", "f", "i", "l", "t", "e", "r", " ", "o", "b", "j", "e", "c", "t", " ",
      "a", "t", " ", "0", "x">> \o addr \o <<">">>

\* The value of an entry of np.empty(...) that was never assigned.
Uninit == <<-1, 0>>

\* re.split('[A-Z][^A-Z]*', text)[0]: what precedes the first uppercase letter.
MultPart(text) == SubSeq(text, 1, NextIn(text, 1, Upper) - 1)

\* list(filter(None, re.split(r'(\d+)', enamenumber))) on a chunk: sp[0] is
\* what precedes the first digit, sp[1] the first run of digits.
DigitRun(chunk) ==
    LET b == NextIn(chunk, 1, Digit)
    IN  SubSeq(chunk, b, NextIn(chunk, b, {chunk[i] : i \in 1..Len(chunk)} \ Digit) - 1)

\* A faulty back-fill: only the endmember being parsed gets the new column.
BackFillCurrentOnly(list_occupancies, i_mbr, i_site) ==
    [list_occupancies EXCEPT ![i_mbr][i_site] = Append(@, Zero)]

\* for parsed_mbr in range(len(list_occupancies)):
\*     list_occupancies[parsed_mbr][i_site].append(0)
BackFill(list_occupancies, i_mbr, i_site) ==
    List([parsed_mbr \in 1..Len(list_occupancies) |->
             [list_occupancies[parsed_mbr] EXCEPT ![i_site] = Append(@, Zero)]])

\* One pass of "for sp in species"; st is the function's local state.
SpeciesStep(st, i_mbr, i_site, sp) ==
    LET name_of_species == NamePart(sp)
        proportion == IF AmountPart(sp) = <<>>
                      THEN [ok |-> TRUE, val |-> One]
                      ELSE Fraction(AmountPart(sp))
    IN  IF st.raised # "" THEN st
        ELSE IF ~proportion.ok THEN [st EXCEPT !.raised = proportion.err]
        ELSE
        LET st1 == [st EXCEPT !.solution_formulae[i_mbr] =
                        Accumulate(@, name_of_species,
                                   RMul(st.list_multiplicities[i_mbr][i_site],
                                        proportion.val))]
            st2 == IF name_of_species \notin Range(st.sites[i_site])
                   THEN [st1 EXCEPT
                            !.n_occupancies = @ + 1,
                            !.sites[i_site] = Append(@, name_of_species),
                            !.list_occupancies = BackFill(@, i_mbr, i_site)]
                   ELSE st1
            i_el == IndexOf(st2.sites[i_site], name_of_species)
        IN  [st2 EXCEPT !.list_occupancies[i_mbr][i_site][i_el] = proportion.val]

RECURSIVE SpeciesLoop(_, _, _, _)
SpeciesLoop(st, i_mbr, i_site, species) ==
    IF species = <<>> THEN st
    ELSE SpeciesLoop(SpeciesStep(st, i_mbr, i_site, Head(species)),
                     i_mbr, i_site, Tail(species))

\* One pass of "for enamenumber in re.findall(...)": an element after the site.
AfterSiteStep(st, i_mbr, enamenumber) ==
    LET sp0 == NamePart(enamenumber)
        nel == IF AmountPart(enamenumber) = <<>>
               THEN One
               ELSE <<ToInt(DigitRun(enamenumber)), 1>>
    IN  IF st.raised # "" THEN st
        ELSE [st EXCEPT !.solution_formulae[i_mbr] = Accumulate(@, sp0, nel)]

RECURSIVE AfterSiteLoop(_, _, _)
AfterSiteLoop(st, i_mbr, chunks) ==
    IF chunks = <<>> THEN st
    ELSE AfterSiteLoop(AfterSiteStep(st, i_mbr, Head(chunks)), i_mbr, Tail(chunks))

\* One pass of "for i_site, site_string in enumerate(s)".
SiteStep(st, i_mbr, i_site, site_string, addr) ==
    LET site_split == Split(site_string, "]")
        site_occupancy == site_split[1]
        mult == MultPart(site_split[2])
        m == IF mult = <<>> THEN [ok |-> TRUE, val |-> One] ELSE Fraction(mult)
        not_in_site == Replace1(FilterRepr(site_split[2], addr), mult)
    IN  IF st.raised # "" THEN st
        ELSE IF Len(site_split) < 2 THEN [st EXCEPT !.raised = "IndexError"]
        ELSE IF ~m.ok THEN [st EXCEPT !.raised = m.err]
        ELSE IF i_site > Len(st.sites) THEN [st EXCEPT !.raised = "IndexError"]
        ELSE AfterSiteLoop(
                 SpeciesLoop([st EXCEPT !.list_multiplicities[i_mbr][i_site] = m.val],
                             i_mbr, i_site, FindallElements(site_occupancy)),
                 i_mbr, FindallElements(not_in_site))

RECURSIVE SiteLoop(_, _, _, _, _)
SiteLoop(st, i_mbr, i_site, s, addr) ==
    IF s = <<>> THEN st
    ELSE SiteLoop(SiteStep(st, i_mbr, i_site, Head(s), addr),
                  i_mbr, i_site + 1, Tail(s), addr)

\* One pass of "for i_mbr in range(n_endmembers)".
MemberStep(st, formulae, i_mbr, addr) ==
    LET st0 == [st EXCEPT !.list_occupancies =
                   Append(@, List([site \in 1..Len(st.sites) |->
                                 List([k \in 1..Len(st.sites[site]) |-> Zero])]))]
        s == Tail(Split(formulae[i_mbr], "["))
    IN  IF st.raised # "" THEN st ELSE SiteLoop(st0, i_mbr, 1, s, addr)

RECURSIVE MemberLoop(_, _, _, _)
MemberLoop(st, formulae, i_mbr, addr) ==
    IF i_mbr > Len(formulae) THEN st
    ELSE MemberLoop(MemberStep(st, formulae, i_mbr, addr), formulae, i_mbr + 1, addr)

\* The locals after the parsing loop.
ParseSites(formulae, addr) ==
    LET n_sites == Count(formulae[1], "[")
        n_endmembers == Len(formulae)
    IN  MemberLoop([raised |-> "",
                    solution_formulae |-> List([i \in 1..n_endmembers |-> <<>>]),
                    sites |-> List([i \in 1..n_sites |-> <<>>]),
                    list_occupancies |-> <<>>,
                    list_multiplicities |->
                        List([i \in 1..n_endmembers |->
                                 List([j \in 1..n_sites |-> Uninit])]),
                    n_occupancies |-> 0],
                   formulae, 1, addr)

\* Row i_mbr of an array made by np.empty(shape=(n_endmembers, n_occupancies))
\* and filled by the loops over i_site and i_el, values[i_site][i_el] being
\* the value assigned in that pass.
FilledRow(st, i_mbr, values) ==
    LET flat == Concat(values)
    IN  List([n_species \in 1..st.n_occupancies |->
                 IF n_species <= Len(flat) THEN flat[n_species] ELSE Uninit])

FlatLen(st, i_mbr) ==
    Len(Concat([i_site \in 1..Len(st.sites) |-> st.list_occupancies[i_mbr][i_site]]))

\* A faulty multiplicity fill: every column takes the first site's value.
MultiplicityRowOfFirstSite(st, i_mbr) ==
    FilledRow(st, i_mbr,
              List([i_site \in 1..Len(st.sites) |->
                  List([i_el \in 1..Len(st.list_occupancies[i_mbr][i_site]) |->
                      st.list_multiplicities[i_mbr][1]])]))

OccupancyRow(st, i_mbr) ==
    FilledRow(st, i_mbr,
              List([i_site \in 1..Len(st.sites) |->
                  List([i_el \in 1..Len(st.list_occupancies[i_mbr][i_site]) |->
                      st.list_occupancies[i_mbr][i_site][i_el]])]))

MultiplicityRow(st, i_mbr) ==
    FilledRow(st, i_mbr,
              List([i_site \in 1..Len(st.sites) |->
                  List([i_el \in 1..Len(st.list_occupancies[i_mbr][i_site]) |->
                      st.list_multiplicities[i_mbr][i_site]])]))

\* string.ascii_uppercase
ucase == <<"A", "B", "C", "D", "E", "F", "G", "H", "I", "J", "K", "L", "M",
           "N", "O", "P", "Q", "R", "S", "T", "U", "V", "W", "X", "Y", "Z">>

\* A faulty naming: the species of a site are listed last seen first.
SiteNamesLastFirst(sites) ==
    Concat([i \in 1..Len(sites) |->
               [k \in 1..Len(sites[i]) |->
                   sites[i][Len(sites[i]) + 1 - k] \o <<"_", ucase[i]>>]])

\* '{0}_{1}'.format(sp, ucase[i]) for every species of every site, in order.
SiteNames(sites) ==
    Concat([i \in 1..Len(sites) |->
               [k \in 1..Len(sites[i]) |-> sites[i][k] \o <<"_", ucase[i]>>]])

\* np.einsum('ij, ij->ij', a, b)
ElementwiseProduct(a, b) ==
    List([i \in 1..Len(a) |->
        List([j \in 1..Len(a[i]) |->
            IF a[i][j] = Uninit \/ b[i][j] = Uninit THEN Uninit
            ELSE RMul(a[i][j], b[i][j])])])

AttrNames == {"site_names", "solution_formulae", "n_sites", "sites",
              "site_multiplicities", "n_occupancies", "endmember_occupancies",
              "endmember_noccupancies"}

\* A solution model that has only its formulas attribute.
NewModel(formulas) ==
    [formulas |-> formulas, has |-> {}, site_names |-> <<>>,
     solution_formulae |-> <<>>, n_sites |-> 0, sites |-> <<>>,
     site_multiplicities |-> <<>>, n_occupancies |-> 0,
     endmember_occupancies |-> <<>>, endmember_noccupancies |-> <<>>]

\* A faulty check that never fires: the attributes get written although the
\* site counts differ.
SiteCountsDifferLate(formulae) == FALSE

\* not np.all(np.array([f.count('[') for f in formulae]) == n_sites)
SiteCountsDiffer(formulae) ==
    \E i \in 1..Len(formulae) : Count(formulae[i], "[") # Count(formulae[1], "[")

\* process_solution_chemistry(model): [raised, model] after the call.
process_solution_chemistry(model, addr) ==
    LET formulae == model.formulas
        st == ParseSites(formulae, addr)
        n_endmembers == Len(formulae)
        overrun == \E i \in 1..n_endmembers : FlatLen(st, i) > st.n_occupancies
        endmember_occupancies == List([i \in 1..n_endmembers |-> OccupancyRow(st, i)])
        site_multiplicities == List([i \in 1..n_endmembers |-> MultiplicityRow(st, i)])
    IN  IF formulae = <<>> THEN [raised |-> "IndexError", model |-> model]
        ELSE IF SiteCountsDiffer(formulae)
        THEN [raised |-> "Exception: All formulae must have the same number of distinct sites.",
              model |-> model]
        ELSE IF st.raised # "" THEN [raised |-> st.raised, model |-> model]
        ELSE IF overrun THEN [raised |-> "IndexError", model |-> model]
        ELSE IF Len(st.sites) > Len(ucase)
        THEN [raised |-> "IndexError",
              model |-> [model EXCEPT
                  !.has = @ \cup {"site_names"},
                  !.site_names = SiteNames(SubSeq(st.sites, 1, Len(ucase)))]]
        ELSE [raised |-> "",
              model |-> [model EXCEPT
                  !.has = AttrNames,
                  !.site_names = SiteNames(st.sites),
                  !.solution_formulae = st.solution_formulae,
                  !.n_sites = Count(formulae[1], "["),
                  !.sites = st.sites,
                  !.site_multiplicities = site_multiplicities,
                  !.n_occupancies = st.n_occupancies,
                  !.endmember_occupancies = endmember_occupancies,
                  !.endmember_noccupancies =
                      ElementwiseProduct(endmember_occupancies, site_multiplicities)]]

----------------------------------------------------------------------------
(* formula_to_string *)

IUPAC_element_order ==
    <<<<"v">>, <<"O", "g">>, <<"R", "n">>, <<"X", "e">>, <<"K", "r">>,
      <<"A", "r">>, <<"N", "e">>, <<"H", "e">>, <<"F", "r">>, <<"C", "s">>,
      <<"R", "b">>, <<"K">>, <<"N", "a">>, <<"L", "i">>, <<"R", "a">>,
      <<"B", "a">>, <<"S", "r">>, <<"C", "a">>, <<"M", "g">>, <<"B", "e">>,
      <<"L", "r">>, <<"N", "o">>, <<"M", "d">>, <<"F", "m">>, <<"E", "s">>,
      <<"C", "f">>, <<"B", "k">>, <<"C", "m">>, <<"A", "m">>, <<"P", "u">>,
      <<"N", "p">>, <<"U">>, <<"P", "a">>, <<"T", "h">>, <<"A", "c">>,
      <<"L", "u">>, <<"Y", "b">>, <<"T", "m">>, <<"E", "r">>, <<"H", "o">>,
      <<"D", "y">>, <<"T", "b">>, <<"G", "d">>, <<"E", "u">>, <<"S", "m">>,
      <<"P", "m">>, <<"N", "d">>, <<"P", "r">>, <<"C", "e">>, <<"L", "a">>,
      <<"Y">>, <<"S", "c">>, <<"R", "f">>, <<"H", "f">>, <<"Z", "r">>,
      <<"T", "i">>, <<"D", "b">>, <<"T", "a">>, <<"N", "b">>, <<"V">>,
      <<"S", "g">>, <<"W">>, <<"M", "o">>, <<"C", "r">>, <<"B", "h">>,
      <<"R", "e">>, <<"T", "c">>, <<"M", "n">>, <<"H", "s">>, <<"O", "s">>,
      <<"R", "u">>, <<"F", "e">>, <<"M", "t">>, <<"I", "r">>, <<"R", "h">>,
      <<"C", "o">>, <<"D", "s">>, <<"P", "t">>, <<"P", "d">>, <<"N", "i">>,
      <<"R", "g">>, <<"A", "u">>, <<"A", "g">>, <<"C", "u">>, <<"C", "n">>,
      <<"H", "g">>, <<"C", "d">>, <<"Z", "n">>, <<"N", "h">>, <<"T", "l">>,
      <<"I", "n">>, <<"G", "a">>, <<"A", "l">>, <<"B">>, <<"F", "l">>,
      <<"P", "b">>, <<"S", "n">>, <<"G", "e">>, <<"S", "i">>, <<"C">>,
      <<"M", "c">>, <<"B", "i">>, <<"S", "b">>, <<"A", "s">>, <<"P">>,
      <<"N">>, <<"L", "v">>, <<"P", "o">>, <<"T", "e">>, <<"S", "e">>,
      <<"S">>, <<"O">>, <<"H">>, <<"T", "s">>, <<"A", "t">>, <<"I">>,
      <<"B", "r">>, <<"C", "l">>, <<"F">>>>

IUPAC_elements == {IUPAC_element_order[i] : i \in 1..Len(IUPAC_element_order)}

\* The value of 0/0 in a numpy float array.
NaN == <<0, 0>>

\* np.abs(x) > 1.e-12.  Every amount of the model has a denominator below
\* 10^12, so its magnitude exceeds 1.e-12 exactly when it is not zero; nan
\* compares false.
ExceedsTol(x) == x # NaN /\ x[1] # 0

\* A faulty test: no amount counts as 1.
IsNeverOne(x) == FALSE

\* np.abs(x - 1.) < 1.e-12: for the same reason, exactly when x is 1.
IsOne(x) == x = One

DigitChars == <<"0", "1", "2", "3", "4", "5", "6", "7", "8", "9">>

RECURSIVE NatStr(_)
NatStr(n) ==
    IF n < 10 THEN <<DigitChars[n + 1]>>
    ELSE NatStr(n \div 10) \o <<DigitChars[(n % 10) + 1]>>

\* str(nsimplify(x)): the integer, or numerator/denominator in lowest terms.
RatStr(x) ==
    (IF x[1] < 0 THEN <<"-">> ELSE <<>>) \o NatStr(Abs(x[1]))
        \o (IF x[2] = 1 THEN <<>> ELSE <<"/">> \o NatStr(x[2]))

\* What one key adds to formula_string.
RenderKey(formula, e) ==
    IF e \in Keys(formula) /\ ExceedsTol(Get(formula, e, Zero))
    THEN IF IsOne(Get(formula, e, Zero)) THEN e ELSE e \o RatStr(Get(formula, e, Zero))
    ELSE <<>>

\* The first loop visits IUPAC_element_order and acts on the entries that
\* are keys of formula; the second visits the keys that are not in the table.
formula_to_string(formula) ==
    LET keys == Keys(formula)
        listed == SelectSeq(IUPAC_element_order, LAMBDA e : e \in keys)
        unlisted == SelectSeq(formula, LAMBDA kv : kv[1] \notin IUPAC_elements)
    IN  Concat([i \in 1..Len(listed) |-> RenderKey(formula, listed[i])])
        \o Concat([i \in 1..Len(unlisted) |-> RenderKey(formula, unlisted[i][1])])

----------------------------------------------------------------------------
(* site_occupancies_to_strings *)

Min(a, b) == IF a < b THEN a ELSE b

RECURSIVE RSum(_)
RSum(q) == IF q = <<>> THEN Zero ELSE RAdd(Head(q), RSum(Tail(q)))

\* dict(zip(keys, values))
RECURSIVE ZipDict(_, _, _)
ZipDict(d, keys, values) ==
    IF keys = <<>> \/ values = <<>> THEN d
    ELSE ZipDict(Put(d, Head(keys), Head(values)), Tail(keys), Tail(values))

NoError == [text |-> "", shapes |-> <<>>]

\* A faulty normalisation: the amounts are rendered as they are.
NormaliseSkipped(amounts) == amounts

\* amounts /= sum(amounts); dividing 0. by 0. gives nan.
Normalise(amounts) ==
    LET total == RSum(amounts)
    IN  [j \in 1..Len(amounts) |->
            IF total = Zero THEN NaN ELSE RDiv(amounts[j], total)]

\* A faulty column: the multiplicity is read at the site's number, not at
\* the site's first column.
MultColumnIsSiteNumber(k, i) == k

\* The column of site_multiplicities read for site number k, whose species
\* start at column i: site_multiplicities[i_mbr, i].
MultColumn(k, i) == i

\* The sites of one endmember from number k on, species starting at column i,
\* appended to acc: '[{0}]{1}'.format(site_occupancy, mult) for each.
RECURSIVE RenderSites(_, _, _, _, _, _)
RenderSites(names, k, i, mult_row, occ_row, acc) ==
    IF k > Len(names) THEN [raised |-> NoError, s |-> acc]
    ELSE IF MultColumn(k, i) > Len(mult_row)
    THEN [raised |-> [text |-> "IndexError", shapes |-> <<>>], s |-> acc]
    ELSE
    LET site == names[k]
        amounts == SubSeq(occ_row, i, Min(i + Len(site) - 1, Len(occ_row)))
        m == mult_row[MultColumn(k, i)]
        mult == IF IsOne(m) THEN <<>> ELSE RatStr(m)
        normalised == Normalise(amounts)
        site_occupancy == formula_to_string(ZipDict(<<>>, site, normalised))
    IN  RenderSites(names, k + 1, i + Len(site), mult_row, occ_row,
                    acc \o <<"[">> \o site_occupancy \o <<"]">> \o mult)

\* An array argument is [shape, v]: the shape np.array() finds and the nested
\* lists.  The 2D multiplicities the shape checks arrive at, or the exception.
BroadcastMultiplicities(site_species_names, site_multiplicities, endmember_occupancies) ==
    LET n_endmembers == endmember_occupancies.shape[1]
        rows(r) == [i \in 1..n_endmembers |-> r]
    IN  IF Len(site_multiplicities.shape) = 1
        THEN IF Len(site_species_names) = site_multiplicities.shape[1]
             THEN [raised |-> NoError,
                   v |-> rows(Concat([i \in 1..Len(site_species_names) |->
                                        [k \in 1..Len(site_species_names[i]) |->
                                            site_multiplicities.v[i]]]))]
             ELSE IF endmember_occupancies.shape[2] # site_multiplicities.shape[1]
             THEN [raised |->
                       [text |-> "Site multiplicities should either be given on a per-site basis or a per-species basis",
                        shapes |-> <<>>],
                   v |-> <<>>]
             ELSE [raised |-> NoError, v |-> rows(site_multiplicities.v)]
        ELSE IF Len(site_multiplicities.shape) = 2
        THEN IF site_multiplicities.shape # endmember_occupancies.shape
             THEN [raised |->
                       [text |-> "If site_multiplicities is 2D, it should have the same shape as endmember_occupancies. They currently have shapes {0} and {1}.",
                        shapes |-> <<site_multiplicities.shape, endmember_occupancies.shape>>],
                   v |-> <<>>]
             ELSE [raised |-> NoError, v |-> site_multiplicities.v]
        ELSE [raised |-> [text |-> "Site multiplicities should either be 1D or 2D.",
                          shapes |-> <<>>],
              v |-> <<>>]

\* The loop over endmembers from number i_mbr on.
RECURSIVE RenderMembers(_, _, _, _, _)
RenderMembers(names, mults, occs, i_mbr, acc) ==
    IF i_mbr > Len(occs) THEN [raised |-> NoError, site_formulae |-> acc]
    ELSE LET r == RenderSites(names, 1, 1, mults[i_mbr], occs[i_mbr], <<>>)
         IN  IF r.raised # NoError THEN [raised |-> r.raised, site_formulae |-> <<>>]
             ELSE RenderMembers(names, mults, occs, i_mbr + 1, Append(acc, r.s))

\* site_occupancies_to_strings: [raised, site_formulae].
site_occupancies_to_strings(site_species_names, site_multiplicities, endmember_occupancies) ==
    LET b == BroadcastMultiplicities(site_species_names, site_multiplicities,
                                     endmember_occupancies)
    IN  IF b.raised # NoError THEN [raised |-> b.raised, site_formulae |-> <<>>]
        ELSE RenderMembers(site_species_names, b.v, endmember_occupancies.v, 1, <<>>)

----------------------------------------------------------------------------
(* compositional_array, ordered_compositional_array *)

\* A faulty scan: an element not seen before is put in front of the list.
RECURSIVE PrependUnseen(_, _)
PrependUnseen(elements, formula) ==
    IF formula = <<>> THEN elements
    ELSE PrependUnseen(IF Head(formula)[1] \in Range(elements) THEN elements
                       ELSE <<Head(formula)[1]>> \o elements,
                       Tail(formula))

\* for element in formula: if element not in elements: elements.append(element)
RECURSIVE AppendUnseen(_, _)
AppendUnseen(elements, formula) ==
    IF formula = <<>> THEN elements
    ELSE AppendUnseen(IF Head(formula)[1] \in Range(elements) THEN elements
                      ELSE Append(elements, Head(formula)[1]),
                      Tail(formula))

\* The loop "for formula in formulae" of compositional_array.
RECURSIVE ElementsLoop(_, _)
ElementsLoop(elements, formulae) ==
    IF formulae = <<>> THEN elements
    ELSE ElementsLoop(AppendUnseen(elements, Head(formulae)), Tail(formulae))

\* ordered_compositional_array: [raised, formula_array]; the assertion fails
\* at the first key that is not in elements.  An amount goes to the column
\* elements.index(element), the first one that names the element.
ordered_compositional_array(formulae, elements) ==
    IF \E idx \in 1..Len(formulae) : ~(Keys(formulae[idx]) \subseteq Range(elements))
    THEN [raised |-> "AssertionError", formula_array |-> <<>>]
    ELSE [raised |-> "",
          formula_array |->
              List([idx \in 1..Len(formulae) |->
                  List([j \in 1..Len(elements) |->
                      IF IndexOf(elements, elements[j]) = j
                      THEN Get(formulae[idx], elements[j], Zero)
                      ELSE Zero])])]

\* compositional_array: [formula_array, elements].
compositional_array(formulae) ==
    LET elements == ElementsLoop(<<>>, formulae)
    IN  [formula_array |-> ordered_compositional_array(formulae, elements).formula_array,
         elements |-> elements]

----------------------------------------------------------------------------
(* sum_formulae, formula_mass, convert_formula on objects held by reference *)

\* atomic_masses, in kg/mol rounded to the gram, for the elements used.
atomic_masses ==
    <<<<<<"M", "g">>, <<24, 1000>>>>, <<<<"O">>, <<16, 1000>>>>,
      <<<<"F", "e">>, <<56, 1000>>>>, <<<<"S", "i">>, <<28, 1000>>>>,
      <<<<"A", "l">>, <<27, 1000>>>>>>

\* The heap holds every object at the index that is its identity: a
\* mapping with its items, or a list with the identities of its entries.
DictObject(items) == [kind |-> "dict", items |-> items]
ListObject(ids) == [kind |-> "list", items |-> ids]

\* What a formula operation leaves behind: the heap, the exception raised
\* if any, the identity of a returned mapping (0 if none) and a returned
\* number, array or string.
Outcome(heap, raised, ref, value) ==
    [objects |-> heap, raised |-> raised, ref |-> ref, value |-> value]

\* A faulty start of the sum: the first formula itself collects the sum.
FirstFormula(heap, formulae) ==
    IF formulae = <<>> THEN Len(heap) + 1 ELSE formulae[1]

\* summed_formula = Counter(): the identity of the object that collects the
\* sum, a new one.
NewCounter(heap, formulae) == Len(heap) + 1

\* summed_formula.update(Counter({element: amounts[i] * n_atoms ...})): the
\* items of the formula, scaled, added to the items of object target.
RECURSIVE CounterUpdate(_, _, _, _)
CounterUpdate(heap, target, items, amount) ==
    IF items = <<>> THEN heap
    ELSE CounterUpdate(
             [heap EXCEPT ![target].items =
                 Accumulate(@, Head(items)[1], RMul(amount, Head(items)[2]))],
             target, Tail(items), amount)

\* for i, formula in enumerate(formulae)
RECURSIVE SumLoop(_, _, _, _, _)
SumLoop(heap, target, formulae, amounts, i) ==
    IF i > Len(formulae) THEN heap
    ELSE SumLoop(CounterUpdate(heap, target, heap[formulae[i]].items, amounts[i]),
                 target, formulae, amounts, i + 1)

NoAmounts == [given |-> FALSE, v |-> <<>>]

\* sum_formulae(formulae, amounts), formulae being the list object list_id.
sum_formulae(heap, list_id, amounts) ==
    LET formulae == heap[list_id].items
        amounts_ == IF amounts.given THEN amounts.v
                    ELSE List([i \in 1..Len(formulae) |-> One])
        target == NewCounter(heap, formulae)
        heap0 == IF target > Len(heap) THEN Append(heap, DictObject(<<>>)) ELSE heap
    IN  IF amounts.given /\ Len(formulae) # Len(amounts.v)
        THEN Outcome(heap, "AssertionError", 0, <<>>)
        ELSE Outcome(SumLoop(heap0, target, formulae, amounts_, 1), "", target, <<>>)

\* formula_mass(formula), formula being the object id.
formula_mass(heap, id) ==
    LET formula == heap[id].items
    IN  IF ~(Keys(formula) \subseteq Keys(atomic_masses))
        THEN Outcome(heap, "KeyError", 0, <<>>)
        ELSE Outcome(heap, "", 0,
                     RSum(List([k \in 1..Len(formula) |->
                               RMul(formula[k][2],
                                    Get(atomic_masses, formula[k][1], Zero))])))

\* convert_formula(formula, to_type, normalize), formula being the object id;
\* the mapping it returns is a new object.
convert_formula(heap, id, to_type, normalize) ==
    LET formula == heap[id].items
        f_ == List([k \in 1..Len(formula) |->
                 <<formula[k][1],
                   IF to_type = "mass"
                   THEN RMul(formula[k][2], Get(atomic_masses, formula[k][1], One))
                   ELSE RDiv(formula[k][2], Get(atomic_masses, formula[k][1], One))>>])
        s_ == RSum(List([k \in 1..Len(f_) |-> f_[k][2]]))
        normalized == List([k \in 1..Len(f_) |->
                          <<f_[k][1], IF s_ = Zero THEN NaN ELSE RDiv(f_[k][2], s_)>>])
    IN  IF to_type \notin {"mass", "molar"}
        THEN Outcome(heap, "Exception: Value of parameter to_type not recognised.", 0, <<>>)
        ELSE IF ~(Keys(formula) \subseteq Keys(atomic_masses))
        THEN Outcome(heap, "KeyError", 0, <<>>)
        ELSE Outcome(Append(heap, DictObject(IF normalize THEN normalized ELSE f_)),
                     "", Len(heap) + 1, <<>>)

\* The formulae a list object holds, by value.
FormulaeOf(heap, list_id) ==
    List([i \in 1..Len(heap[list_id].items) |-> heap[heap[list_id].items[i]].items])

----------------------------------------------------------------------------
(* equilibrium_pressure, equilibrium_temperature, invariant_point, hugoniot *)

\* A mineral object keeps the (P, T) of its last set_state; its properties
\* are functions of that state, which the model keeps symbolic: a value
\* read from a mineral is the property's name, the mineral and the state
\* the mineral was in when it was read.
Unset == <<0, 0>>
\* A faulty set_state: the state is kept once for all mineral instances.
set_state_all(minerals_, m, P, T) == [k \in DOMAIN minerals_ |-> <<P, T>>]

set_state(minerals_, m, P, T) == [minerals_ EXCEPT ![m] = <<P, T>>]
Property(name, minerals_, m) == <<name, m, minerals_[m][1], minerals_[m][2]>>
SetEvent(m, P, T) == <<"set_state", m, P, T>>

\* The outcome of running a residual function: the minerals as it leaves
\* them, the calls and reads it made in order, the value it returns.
Evaluation(minerals_, events, value) ==
    [minerals |-> minerals_, events |-> events, value |-> value]

\* What one residual evaluation reads from a mineral after set_state: gibbs
\* in eqm, helmholtz, S and V in Ediff.
ReadsOf(fn) == IF fn = "hugoniot" THEN <<"helmholtz", "S", "V">> ELSE <<"gibbs">>

\* A faulty loop body: gibbs is read before the state is set.
RECURSIVE EqmLoopReadFirst(_, _, _, _, _, _)
EqmLoopReadFirst(ev, minerals, stoichiometry, P, T, i) ==
    IF i > Len(minerals) THEN ev
    ELSE LET m == minerals[i]
             g == Property("gibbs", ev.minerals, m)
         IN  EqmLoopReadFirst(
                 Evaluation(set_state(ev.minerals, m, P, T),
                            ev.events \o <<g, SetEvent(m, P, T)>>,
                            Append(ev.value, <<g, stoichiometry[i]>>)),
                 minerals, stoichiometry, P, T, i + 1)

\* for i, mineral in enumerate(minerals): mineral.set_state(P, T);
\* gibbs = gibbs + mineral.gibbs * stoichiometry[i].  The sum is kept as the
\* sequence of its terms.
RECURSIVE EqmLoop(_, _, _, _, _, _)
EqmLoop(ev, minerals, stoichiometry, P, T, i) ==
    IF i > Len(minerals) THEN ev
    ELSE LET m == minerals[i]
             set == set_state(ev.minerals, m, P, T)
             g == Property("gibbs", set, m)
         IN  EqmLoop(Evaluation(set, ev.events \o <<SetEvent(m, P, T), g>>,
                                Append(ev.value, <<g, stoichiometry[i]>>)),
                     minerals, stoichiometry, P, T, i + 1)

\* eqm(P, T) of equilibrium_pressure: the state set is (P[0], T).
eqm_pressure(minerals_, call, P) ==
    EqmLoop(Evaluation(minerals_, <<>>, <<>>),
            call.minerals, call.stoichiometry, P[1], call.temperature, 1)

\* eqm(T, P) of equilibrium_temperature: the state set is (P, T[0]).
eqm_temperature(minerals_, call, T) ==
    EqmLoop(Evaluation(minerals_, <<>>, <<>>),
            call.minerals, call.stoichiometry, call.pressure, T[1], 1)

\* eqm(PT) of invariant_point: both reactions at P, T = PT.
eqm_invariant(minerals_, call, PT) ==
    LET r1 == EqmLoop(Evaluation(minerals_, <<>>, <<>>),
                      call.minerals, call.stoichiometry, PT[1], PT[2], 1)
        r2 == EqmLoop(Evaluation(r1.minerals, r1.events, <<>>),
                      call.minerals_r2, call.stoichiometry_r2, PT[1], PT[2], 1)
    IN  Evaluation(r2.minerals, r2.events, <<r1.value, r2.value>>)

\* helmholtz + T * S, both read from mineral m as it is.
InternalEnergy(minerals_, m, T) ==
    <<Property("helmholtz", minerals_, m), T, Property("S", minerals_, m)>>

\* Ediff(T, mineral, P, P_ref, U_ref, V_ref) of hugoniot.
Ediff(minerals_, call, U_ref, V_ref, P, T) ==
    LET set == set_state(minerals_, call.mineral, P, T[1])
        U == InternalEnergy(set, call.mineral, T[1])
        V == Property("V", set, call.mineral)
    IN  Evaluation(set,
                   <<SetEvent(call.mineral, P, T[1]), U[1], U[3], V>>,
                   <<U, U_ref, P, call.P_ref, V_ref, V>>)

\* The pressure the current solve of hugoniot is for (0 outside one).
CurrentPressure(call, h) ==
    IF call.fn = "hugoniot" /\ h.i >= 1 /\ h.i <= Len(call.pressures)
    THEN call.pressures[h.i] ELSE 0

\* func(x, *args) as fsolve calls it for the call in progress.
Residual(minerals_, call, h, x) ==
    CASE call.fn = "equilibrium_pressure" -> eqm_pressure(minerals_, call, x)
      [] call.fn = "equilibrium_temperature" -> eqm_temperature(minerals_, call, x)
      [] call.fn = "invariant_point" -> eqm_invariant(minerals_, call, x)
      [] OTHER -> Ediff(minerals_, call, h.U_ref, h.V_ref, CurrentPressure(call, h), x)

\* A faulty default: the reference is the mineral even when one is given.
ReferenceIsMineral(call) == call.mineral

\* if reference_mineral is None: reference_mineral = mineral
ReferenceMineral(call) ==
    IF call.reference_mineral = 0 THEN call.mineral ELSE call.reference_mineral

\* A faulty reading of fsolve's answer: a solve that did not converge raises.
FsolveChecked(x, converged) ==
    IF converged THEN [raised |-> "", x |-> x]
    ELSE [raised |-> "RuntimeError", x |-> x]

\* fsolve(func, x0, args=...) without full_output: the array x alone, for a
\* solve that converged and for one that did not.
FsolveResult(x, converged) == [raised |-> "", x |-> x]

----------------------------------------------------------------------------
(* chemical_potentials *)

\* The row the partial pivoting of column j picks: the first row from j on
\* whose entry in column j has the largest magnitude.
PivotRow(a, j) ==
    CHOOSE p \in j..Len(a) :
        \A i \in j..Len(a) :
            /\ ~RLt(RAbs(a[p][j]), RAbs(a[i][j]))
            /\ i < p => RLt(RAbs(a[i][j]), RAbs(a[p][j]))

SwapRows(a, i, j) == [a EXCEPT ![i] = a[j], ![j] = a[i]]

\* Column j eliminated below row j; a zero pivot leaves the rows as they are.
EliminateColumn(a, j) ==
    IF a[j][j] = Zero THEN a
    ELSE List([i \in 1..Len(a) |->
             IF i <= j THEN a[i]
             ELSE List([c \in 1..Len(a[i]) |->
                      IF c < j THEN a[i][c]
                      ELSE IF c = j THEN RDiv(a[i][j], a[j][j])
                      ELSE RSub(a[i][c], RMul(RDiv(a[i][j], a[j][j]), a[j][c]))])])

\* The in-place factorisation with partial pivoting, from column j on.
RECURSIVE Factorise(_, _)
Factorise(a, j) ==
    IF j > Min(Len(a), Len(a[1])) THEN a
    ELSE Factorise(EliminateColumn(SwapRows(a, j, PivotRow(a, j)), j), j + 1)

\* pl, u = lu(a, permute_l=True): the factor u, min(rows, columns) rows of
\* the factorised array with the entries below the diagonal cleared.
lu(a) ==
    LET lu_ == Factorise(a, 1)
    IN  List([i \in 1..Min(Len(a), Len(a[1])) |->
            List([c \in 1..Len(a[1]) |-> IF c < i THEN Zero ELSE lu_[i][c]])])

\* np.dot(np.square(u), np.ones(shape=len(elements)))
RowSquares(u) ==
    List([i \in 1..Len(u) |-> RSum(List([c \in 1..Len(u[i]) |-> RMul(u[i][c], u[i][c])]))])

\* The threshold 1e-6 of the independence assertion.
IndependenceTol == <<1, 1000000>>

\* min(...) > 1e-6
IndependenceCheckPasses(u) ==
    \A i \in 1..Len(u) : RLt(IndependenceTol, RowSquares(u)[i])

\* error < 1e-10, for an exact error n/d: n * 10^10 < d.
BelowResidualTol(error) == error[1] * 100000 <= (error[2] - 1) \div 100000

\* The inner products of the rows of v with each other.
Gram(v) ==
    List([i \in 1..Len(v) |->
        List([j \in 1..Len(v) |->
            RSum(List([c \in 1..Len(v[i]) |-> RMul(v[i][c], v[j][c])]))])])

\* g without its first row and its column c.
Minor(g, c) ==
    List([i \in 1..(Len(g) - 1) |->
        List([j \in 1..(Len(g) - 1) |-> g[i + 1][IF j < c THEN j ELSE j + 1]])])

RECURSIVE Det(_)
Det(g) ==
    IF g = <<>> THEN One
    ELSE RSum(List([c \in 1..Len(g) |->
             IF g[1][c] = Zero THEN Zero
             ELSE RMul(IF c % 2 = 1 THEN g[1][c] ELSE RSub(Zero, g[1][c]),
                       Det(Minor(g, c)))]))

\* p[1] of np.linalg.lstsq(endmember_compositions.T, component_compositions.T):
\* one sum of squared residuals per component when the endmember rows have
\* full rank and there are more elements than endmembers, otherwise empty.
\* The squared distance of a component from the span of independent rows is
\* the ratio of the Gram determinants with and without it.
lstsq_residuals(endmember_compositions, component_compositions) ==
    LET N == Len(endmember_compositions)
        M == Len(endmember_compositions[1])
        g == Det(Gram(endmember_compositions))
    IN  IF M <= N \/ g = Zero THEN <<>>
        ELSE List([idx \in 1..Len(component_compositions) |->
                 RDiv(Det(Gram(Append(endmember_compositions,
                                      component_compositions[idx]))), g)])

\* for mineral in assemblage: the endmember formulae of a solid solution, the
\* formula of any other mineral.
EndmemberFormulae(minerals) ==
    Concat([i \in 1..Len(minerals) |-> minerals[i].formulae])

NotCalled == [outcome |-> "none", component |-> 0]

\* chemical_potentials: how the call ends, [outcome, component]; component is
\* the number the assertion message of the residual check carries.
chemical_potentials(minerals, components) ==
    LET endmember_formulae == EndmemberFormulae(minerals)
        ca == compositional_array(endmember_formulae)
        u == lu(ca.formula_array)
        cc == ordered_compositional_array(components, ca.elements)
        residuals == lstsq_residuals(ca.formula_array, cc.formula_array)
        failing == {idx \in 1..Len(residuals) : ~BelowResidualTol(residuals[idx])}
    IN  IF ~IndependenceCheckPasses(u)
        THEN [outcome |-> "AssertionError: Endmember compositions do not form an independent set of basis vectors",
              component |-> 0]
        ELSE IF cc.raised # "" THEN [outcome |-> cc.raised, component |-> 0]
        ELSE IF failing # {}
        THEN [outcome |-> "AssertionError: Component %d not defined by prescribed assemblage",
              component |-> CHOOSE idx \in failing : \A other \in failing : idx <= other]
        ELSE [outcome |-> "returned", component |-> 0]

----------------------------------------------------------------------------
(* The strings a caller writes *)

\* An amount as written, with the value the writer means by it.
NoAmount == [txt |-> <<>>, val |-> One]
Amt2 == [txt |-> <<"2">>, val |-> <<2, 1>>]
Amt3 == [txt |-> <<"3">>, val |-> <<3, 1>>]
Amt12 == [txt |-> <<"1", "2">>, val |-> <<12, 1>>]
AmtHalf == [txt |-> <<"1", "/", "2">>, val |-> <<1, 2>>]

cMg == <<"M", "g">>
cFe == <<"F", "e">>
cAl == <<"A", "l">>
cSi == <<"S", "i">>
cO == <<"O">>

Tok(sym, amt) == [sym |-> sym, amt |-> amt]
TokChars(t) == t.sym \o t.amt.txt

RECURSIVE Flatten(_)
Flatten(ts) == IF ts = <<>> THEN <<>> ELSE TokChars(Head(ts)) \o Flatten(Tail(ts))

ElementTokens == {Tok(s, a) : s \in {cMg, cSi, cO}, a \in {NoAmount, Amt2, AmtHalf, Amt12}}

Amt4 == [txt |-> <<"4">>, val |-> <<4, 1>>]

\* One bracketed site as written: the species in the brackets, the
\* multiplicity after them and the elements that follow it.
Group(species, mult, post) == [species |-> species, mult |-> mult, post |-> post]

GroupChars(g) ==
    <<"[">> \o Flatten(g.species) \o <<"]">> \o g.mult.txt \o Flatten(g.post)

FormulaChars(fm) == Concat([i \in 1..Len(fm) |-> GroupChars(fm[i])])

Si3O12 == <<Tok(cSi, Amt3), Tok(cO, Amt12)>>
SiO4 == <<Tok(cSi, NoAmount), Tok(cO, Amt4)>>

\* [Mg]3[Al]2Si3O12
Pyrope == <<Group(<<Tok(cMg, NoAmount)>>, Amt3, <<>>),
            Group(<<Tok(cAl, NoAmount)>>, Amt2, Si3O12)>>
\* [Fe]3[Al]2Si3O12
Almandine == <<Group(<<Tok(cFe, NoAmount)>>, Amt3, <<>>),
               Group(<<Tok(cAl, NoAmount)>>, Amt2, Si3O12)>>
\* [Mg]3[Mg1/2Si1/2]2Si3O12
Majorite == <<Group(<<Tok(cMg, NoAmount)>>, Amt3, <<>>),
              Group(<<Tok(cMg, AmtHalf), Tok(cSi, AmtHalf)>>, Amt2, Si3O12)>>
\* [Fe1/2Mg1/2]1/2[Mg]
Mixed == <<Group(<<Tok(cFe, AmtHalf), Tok(cMg, AmtHalf)>>, AmtHalf, <<>>),
           Group(<<Tok(cMg, NoAmount)>>, NoAmount, <<>>)>>
\* [Mg]O[Fe]
Oxide == <<Group(<<Tok(cMg, NoAmount)>>, NoAmount, <<Tok(cO, NoAmount)>>),
           Group(<<Tok(cFe, NoAmount)>>, NoAmount, <<>>)>>
\* [Mg]2SiO4
Forsterite == <<Group(<<Tok(cMg, NoAmount)>>, Amt2, SiO4)>>
\* [Fe]2SiO4
Fayalite == <<Group(<<Tok(cFe, NoAmount)>>, Amt2, SiO4)>>
\* [Fe3Mg]2
Unnormalised == <<Group(<<Tok(cFe, Amt3), Tok(cMg, NoAmount)>>, Amt2, <<>>)>>

FormulaPool == {Pyrope, Almandine, Majorite, Mixed, Oxide, Forsterite, Fayalite,
                Unnormalised}

\* Formula dictionaries of endmembers and components.
fMg == <<<<cMg, One>>>>
fFe == <<<<cFe, One>>>>
fMgO == <<<<cMg, One>>, <<cO, One>>>>
fFeO == <<<<cFe, One>>, <<cO, One>>>>
fSiO2 == <<<<cSi, One>>, <<cO, <<2, 1>>>>>>
fAl2O3 == <<<<cAl, <<2, 1>>>>, <<cO, <<3, 1>>>>>>

\* A mineral of an assemblage: a solid solution brings the formulae of its
\* endmembers, any other mineral its own formula.
Mineral(formula) == [solid_solution |-> FALSE, formulae |-> <<formula>>]
SolidSolution(formulae) == [solid_solution |-> TRUE, formulae |-> formulae]

Periclase == Mineral(fMgO)
Iron == Mineral(fFe)
Quartz == Mineral(fSiO2)
Ferropericlase == SolidSolution(<<fMgO, fFeO>>)

\* A mapping that iterates O before Mg.
fOMg2 == <<<<cO, One>>, <<cMg, <<2, 1>>>>>>

ArrayFormulaPool == {fMg, fMgO, fOMg2, fFeO, fSiO2}
\* The elements a caller lists for ordered_compositional_array.
ArrayElementPool == {cMg, cO, cFe}

\* Keys that are not in IUPAC_element_order.
cZz == <<"Z", "z">>
cQ == <<"Q">>

StringKeyPool == {cMg, cO, cZz, cQ}
StringAmountPool == {Zero, One, <<2, 1>>, <<1, 2>>}

\* The formulae a caller may hold: known elements in either order, and one
\* element the mass table does not have.
fZz == <<<<cZz, One>>>>
ObjFormulaPool == {fMgO, fOMg2, fFeO, fZz}

\* Object 1 is the caller's list of formulae, empty at first.
NoObjCall == [op |-> "none", raised |-> "", ref |-> 0, value |-> <<>>]
FormulaList == 1

\* Pieces of a formula string that need not be well formed, each with what
\* the caller wrote: characters before the first capital (kind "lead"), a
\* token with a name and an amount (kind "token"), or a token whose amount
\* text is no number (kind "bad", with the exception Fraction raises for it).
Raw(chars, kind, name, amount, err) ==
    [chars |-> chars, kind |-> kind, name |-> name, amount |-> amount, err |-> err]
LeadPieces ==
    {Raw(<<"x">>, "lead", <<>>, Zero, ""), Raw(<<"2">>, "lead", <<>>, Zero, "")}
TokenPieces ==
    {Raw(<<"M", "g">>, "token", cMg, One, ""),
     Raw(<<"M", "g", "2">>, "token", cMg, <<2, 1>>, ""),
     Raw(<<"O", "1", "/", "2">>, "token", cO, <<1, 2>>, ""),
     Raw(<<"F", "e", "x", "2">>, "token", <<"F", "e", "x">>, <<2, 1>>, ""),
     Raw(<<"M", "g", "2", "x">>, "bad", cMg, Zero, "ValueError"),
     Raw(<<"O", "1", "/", "2", "/", "3">>, "bad", cO, Zero, "ValueError"),
     Raw(<<"O", "1", "/", "0">>, "bad", cO, Zero, "ZeroDivisionError")}

\* The root finders: two mineral objects, pressures and temperatures in
\* small whole units, and the points fsolve may try.
MineralObjects == {1, 2}
Pressures == {1, 2}
Temperatures == {1, 2}
TrialValues == {1, 2, 3}
MineralLists == {<<1>>, <<1, 2>>, <<1, 1>>}
Stoichiometry(minerals) == List([i \in 1..Len(minerals) |-> IF i = 1 THEN 1 ELSE -1])
PressureLists == UNION {[1..n -> Pressures] : n \in 0..MaxPressures}

\* Two threads, each making one root-finder call.
Threads == {1, 2}
NoThread ==
    [pc |-> "idle", fn |-> "none", m |-> 0, point |-> Unset, reads |-> <<>>,
     evals |-> 0, value |-> <<>>, stale |-> FALSE]

NoCall ==
    [fn |-> "none", minerals |-> <<>>, stoichiometry |-> <<>>,
     minerals_r2 |-> <<>>, stoichiometry_r2 |-> <<>>,
     temperature |-> 0, pressure |-> 0, guess |-> <<>>,
     mineral |-> 0, reference_mineral |-> 0, P_ref |-> 0, T_ref |-> 0,
     pressures |-> <<>>]
NoSolve ==
    [x0 |-> <<>>, x |-> <<>>, nfev |-> 0, last |-> <<>>, events |-> <<>>, value |-> <<>>]
NoHugoniot ==
    [U_ref |-> <<>>, V_ref |-> <<>>, temperatures |-> <<>>, volumes |-> <<>>, i |-> 0]
NoOut == [raised |-> "", value |-> <<>>]

MineralPool == {Periclase, Iron, Quartz, Ferropericlase}
ComponentPool == {fMg, fMgO, fAl2O3}

----------------------------------------------------------------------------
(* dictionarize_formula called on a flat formula string *)

NoArgs == [variant |-> "none", shape |-> <<>>]

IdleDict == tokens = <<>> /\ dict_formula = <<>> /\ f = <<>> /\ dict_status = "none"
IdleSite ==
    /\ src = <<>>
    /\ solution_model = NewModel(<<>>)
    /\ site_status = "none"
    /\ render_args = NoArgs
    /\ site_formulae = <<>>
    /\ render_raised = NoError
IdleChem == assemblage = <<>> /\ component_formulae = <<>> /\ chem_status = NotCalled
NoArrayCall == [op |-> "none", raised |-> "", formula_array |-> <<>>, elements |-> <<>>]
IdleArray == array_formulae = <<>> /\ array_elements = <<>> /\ array_call = NoArrayCall
NoStringCall == [op |-> "none", formula_string |-> <<>>]
IdleString == string_formula = <<>> /\ string_call = NoStringCall
IdleObj == objects = <<ListObject(<<>>)>> /\ obj_call = NoObjCall
IdleRoot ==
    /\ rf = NoCall /\ rf_pc = "idle" /\ solver = NoSolve /\ hug = NoHugoniot
    /\ mineral_state = [m \in MineralObjects |-> Unset]
    /\ rf_trace = <<>> /\ rf_out = NoOut
IdleConc ==
    /\ instances = [m \in MineralObjects |-> Unset]
    /\ threads = [t \in Threads |-> NoThread]
    /\ lock = 0
IdleLater == IdleArray /\ IdleString /\ IdleObj /\ IdleRoot /\ IdleConc /\ sharing = "shared"
SharingChosen == IdleArray /\ IdleString /\ IdleObj /\ IdleRoot /\ IdleConc

\* The caller writes one more element token at the end of the string.
WriteToken ==
    \E t \in ElementTokens :
        /\ dict_status = "none"
        /\ Len(tokens) < MaxTokens
        /\ tokens' = Append(tokens, t)
        /\ dict_formula' = dict_formula \o TokChars(t)
        /\ UNCHANGED <<f, dict_status, siteVars, chemVars, laterVars>>

DictionarizeFormula ==
    LET r == dictionarize_formula(dict_formula)
    IN  /\ dict_status = "none"
        /\ f' = IF r.raised = "" THEN r.f ELSE f
        /\ dict_status' = IF r.raised = "" THEN "returned" ELSE r.raised
        /\ UNCHANGED <<tokens, dict_formula, siteVars, chemVars, laterVars>>

\* The caller writes one more piece of a string that may be malformed;
\* characters without a capital can only lead the string.
WriteRaw ==
    /\ dict_status = "none"
    /\ Len(tokens) < MaxTokens
    /\ \E piece \in (IF tokens = <<>> THEN LeadPieces ELSE {}) \cup TokenPieces :
           /\ tokens' = Append(tokens, piece)
           /\ dict_formula' = dict_formula \o piece.chars
    /\ UNCHANGED <<f, dict_status, siteVars, chemVars, laterVars>>

InitRaw == IdleDict /\ IdleSite /\ IdleChem /\ IdleLater
NextRaw == WriteRaw \/ DictionarizeFormula
SpecRaw == InitRaw /\ [][NextRaw]_vars

InitDict == IdleDict /\ IdleSite /\ IdleChem /\ IdleLater
NextDict == WriteToken \/ DictionarizeFormula
SpecDict == InitDict /\ [][NextDict]_vars

----------------------------------------------------------------------------
(* process_solution_chemistry and site_occupancies_to_strings called on a
   solution model whose formulas the caller extends *)

\* The caller appends one more endmember formula to solution_model.formulas.
AddEndmember ==
    \E fm \in FormulaPool :
        /\ Len(src) < MaxMbr
        /\ src' = Append(src, fm)
        /\ solution_model' = [solution_model EXCEPT !.formulas = Append(@, FormulaChars(fm))]
        /\ site_status' = "none"
        /\ render_args' = NoArgs
        /\ site_formulae' = <<>>
        /\ render_raised' = NoError
        /\ UNCHANGED <<dictVars, chemVars, laterVars>>

ProcessSolutionChemistry ==
    \E addr \in FilterAddrs :
        LET r == process_solution_chemistry(solution_model, addr)
        IN  /\ site_status = "none"
            /\ solution_model' = r.model
            /\ site_status' = IF r.raised = "" THEN "returned" ELSE r.raised
            /\ UNCHANGED <<src, render_args, site_formulae, render_raised,
                           dictVars, chemVars, laterVars>>

\* The column at which the species of site number k start.
RECURSIVE FirstColumn(_, _)
FirstColumn(sites, k) ==
    IF k = 1 THEN 1 ELSE FirstColumn(sites, k - 1) + Len(sites[k - 1])

MultVariants == {"2D", "per_species", "per_site", "1D_other", "2D_rows",
                 "2D_columns", "3D", "0D"}

\* The site_multiplicities argument a caller builds from the model's own
\* arrays in each of the shapes, taking the first endmember's values for 1D.
MultArg(variant, model) ==
    LET sm == model.site_multiplicities
        n == Len(sm)
        c == Len(sm[1])
    IN  CASE variant = "2D" -> [shape |-> <<n, c>>, v |-> sm]
          [] variant = "per_species" -> [shape |-> <<c>>, v |-> sm[1]]
          [] variant = "per_site" ->
                [shape |-> <<Len(model.sites)>>,
                 v |-> [k \in 1..Len(model.sites) |->
                           sm[1][FirstColumn(model.sites, k)]]]
          [] variant = "1D_other" -> [shape |-> <<c + 1>>, v |-> Append(sm[1], One)]
          [] variant = "2D_rows" -> [shape |-> <<n + 1, c>>, v |-> Append(sm, sm[1])]
          [] variant = "2D_columns" ->
                [shape |-> <<n, c + 1>>, v |-> [i \in 1..n |-> Append(sm[i], One)]]
          [] variant = "3D" -> [shape |-> <<1, n, c>>, v |-> <<sm>>]
          [] variant = "0D" -> [shape |-> <<>>, v |-> One]

OccArg(model) ==
    [shape |-> <<Len(model.endmember_occupancies), Len(model.endmember_occupancies[1])>>,
     v |-> model.endmember_occupancies]

SiteOccupanciesToStrings ==
    \E variant \in MultVariants :
        LET sm == MultArg(variant, solution_model)
            r == site_occupancies_to_strings(solution_model.sites, sm,
                                             OccArg(solution_model))
        IN  /\ site_status = "returned"
            /\ render_args' = [variant |-> variant, shape |-> sm.shape]
            /\ site_formulae' = r.site_formulae
            /\ render_raised' = r.raised
            /\ UNCHANGED <<src, solution_model, site_status, dictVars, chemVars, laterVars>>

InitSite == IdleDict /\ IdleSite /\ IdleChem /\ IdleLater
NextSite == AddEndmember \/ ProcessSolutionChemistry \/ SiteOccupanciesToStrings
SpecSite == InitSite /\ [][NextSite]_vars

----------------------------------------------------------------------------
(* chemical_potentials called on an assemblage *)

AddMineral ==
    \E mineral \in MineralPool :
        /\ chem_status = NotCalled
        /\ Len(assemblage) < MaxMinerals
        /\ assemblage' = Append(assemblage, mineral)
        /\ UNCHANGED <<component_formulae, chem_status, dictVars, siteVars, laterVars>>

AddComponent ==
    \E formula \in ComponentPool :
        /\ chem_status = NotCalled
        /\ Len(component_formulae) < MaxComponents
        /\ component_formulae' = Append(component_formulae, formula)
        /\ UNCHANGED <<assemblage, chem_status, dictVars, siteVars, laterVars>>

ChemicalPotentials ==
    /\ chem_status = NotCalled
    /\ assemblage # <<>>
    /\ chem_status' = chemical_potentials(assemblage, component_formulae)
    /\ UNCHANGED <<assemblage, component_formulae, dictVars, siteVars, laterVars>>

InitChem == IdleDict /\ IdleSite /\ IdleChem /\ IdleLater
NextChem == AddMineral \/ AddComponent \/ ChemicalPotentials
SpecChem == InitChem /\ [][NextChem]_vars

----------------------------------------------------------------------------
(* compositional_array and ordered_compositional_array called on formulae *)

AddFormula ==
    \E formula \in ArrayFormulaPool :
        /\ array_call = NoArrayCall
        /\ Len(array_formulae) < MaxFormulae
        /\ array_formulae' = Append(array_formulae, formula)
        /\ UNCHANGED <<array_elements, array_call, coreVars, notArray>>

\* The caller lists one more element; a list names an element once.
AddElement ==
    \E element \in ArrayElementPool \ Range(array_elements) :
        /\ array_call = NoArrayCall
        /\ array_elements' = Append(array_elements, element)
        /\ UNCHANGED <<array_formulae, array_call, coreVars, notArray>>

CompositionalArray ==
    LET r == compositional_array(array_formulae)
    IN  /\ array_call = NoArrayCall
        /\ array_elements = <<>>
        /\ array_call' = [op |-> "compositional_array", raised |-> "",
                          formula_array |-> r.formula_array, elements |-> r.elements]
        /\ UNCHANGED <<array_formulae, array_elements, coreVars, notArray>>

OrderedCompositionalArray ==
    LET r == ordered_compositional_array(array_formulae, array_elements)
    IN  /\ array_call = NoArrayCall
        /\ array_call' = [op |-> "ordered_compositional_array", raised |-> r.raised,
                          formula_array |-> r.formula_array, elements |-> <<>>]
        /\ UNCHANGED <<array_formulae, array_elements, coreVars, notArray>>

InitArray == IdleDict /\ IdleSite /\ IdleChem /\ IdleLater
NextArray == AddFormula \/ AddElement \/ CompositionalArray \/ OrderedCompositionalArray
SpecArray == InitArray /\ [][NextArray]_vars

----------------------------------------------------------------------------
(* formula_to_string called on a mapping *)

\* The caller's mapping gets one more key.
AddKey ==
    \E key \in StringKeyPool \ Keys(string_formula) :
        \E amount \in StringAmountPool :
            /\ string_call = NoStringCall
            /\ Len(string_formula) < MaxKeys
            /\ string_formula' = Append(string_formula, <<key, amount>>)
            /\ UNCHANGED <<string_call, coreVars, notString>>

FormulaToString ==
    /\ string_call = NoStringCall
    /\ string_call' = [op |-> "formula_to_string",
                       formula_string |-> formula_to_string(string_formula)]
    /\ UNCHANGED <<string_formula, coreVars, notString>>

InitString == IdleDict /\ IdleSite /\ IdleChem /\ IdleLater
NextString == AddKey \/ FormulaToString
SpecString == InitString /\ [][NextString]_vars

----------------------------------------------------------------------------
(* The formula operations called on objects the caller keeps *)

\* The caller creates one more formula and appends it to the list.
AddObjFormula ==
    /\ obj_call.op = "none"
    /\ Len(objects[FormulaList].items) < MaxFormulae
    /\ \E formula \in ObjFormulaPool :
           objects' = [Append(objects, DictObject(formula))
                          EXCEPT ![FormulaList].items = Append(@, Len(objects) + 1)]
    /\ UNCHANGED <<obj_call, coreVars, notObj>>

\* The record of a call and the heap it leaves.
Returns(op, outcome) ==
    /\ objects' = outcome.objects
    /\ obj_call' = [op |-> op, raised |-> outcome.raised,
                    ref |-> outcome.ref, value |-> outcome.value]
    /\ UNCHANGED <<coreVars, notObj>>

\* The amounts a caller may pass: none, one per formula, or one too many.
AmountChoices ==
    LET n == Len(objects[FormulaList].items)
    IN  {NoAmounts,
         [given |-> TRUE, v |-> List([i \in 1..n |-> <<i + 1, 1>>])],
         [given |-> TRUE, v |-> List([i \in 1..(n + 1) |-> One])]}

SumFormulae ==
    /\ obj_call.op = "none"
    /\ \E amounts \in AmountChoices :
           Returns("sum_formulae", sum_formulae(objects, FormulaList, amounts))

FormulaMass ==
    /\ obj_call.op = "none"
    /\ \E i \in 1..Len(objects[FormulaList].items) :
           Returns("formula_mass", formula_mass(objects, objects[FormulaList].items[i]))

ConvertFormula ==
    /\ obj_call.op = "none"
    /\ \E i \in 1..Len(objects[FormulaList].items),
          to_type \in {"mass", "molar", "volume"}, normalize \in BOOLEAN :
           Returns("convert_formula",
                   convert_formula(objects, objects[FormulaList].items[i],
                                   to_type, normalize))

ArrayOfObjects ==
    /\ obj_call.op = "none"
    /\ Returns("compositional_array",
               Outcome(objects, "", 0,
                       compositional_array(FormulaeOf(objects, FormulaList)).formula_array))

OrderedArrayOfObjects ==
    /\ obj_call.op = "none"
    /\ \E elements \in {<<cMg, cO>>, <<cO, cFe>>, <<cMg>>} :
           LET r == ordered_compositional_array(FormulaeOf(objects, FormulaList), elements)
           IN  Returns("ordered_compositional_array",
                       Outcome(objects, r.raised, 0, r.formula_array))

StringOfObject ==
    /\ obj_call.op = "none"
    /\ \E i \in 1..Len(objects[FormulaList].items) :
           Returns("formula_to_string",
                   Outcome(objects, "", 0,
                           formula_to_string(objects[objects[FormulaList].items[i]].items)))

InitObj == IdleDict /\ IdleSite /\ IdleChem /\ IdleLater
NextObj ==
    \/ AddObjFormula \/ SumFormulae \/ FormulaMass \/ ConvertFormula
    \/ ArrayOfObjects \/ OrderedArrayOfObjects \/ StringOfObject
SpecObj == InitObj /\ [][NextObj]_vars

----------------------------------------------------------------------------
(* The root finders and the solver that drives them *)

\* fsolve(func, x0, ...) is entered: nothing evaluated yet.
StartSolve(x0) == [NoSolve EXCEPT !.x0 = x0, !.x = x0]
SolveEvent(i, P) == <<"fsolve", i, P>>

EquilibriumPressure ==
    /\ rf_pc = "idle"
    /\ \E minerals \in MineralLists, temperature \in Temperatures :
           rf' = [NoCall EXCEPT !.fn = "equilibrium_pressure",
                                !.minerals = minerals,
                                !.stoichiometry = Stoichiometry(minerals),
                                !.temperature = temperature, !.guess = <<1>>]
    /\ solver' = StartSolve(rf'.guess)
    /\ rf_trace' = <<SolveEvent(0, 0)>>
    /\ rf_pc' = "solve"
    /\ UNCHANGED <<mineral_state, hug, rf_out, coreVars, notRoot>>

EquilibriumTemperature ==
    /\ rf_pc = "idle"
    /\ \E minerals \in MineralLists, pressure \in Pressures :
           rf' = [NoCall EXCEPT !.fn = "equilibrium_temperature",
                                !.minerals = minerals,
                                !.stoichiometry = Stoichiometry(minerals),
                                !.pressure = pressure, !.guess = <<1>>]
    /\ solver' = StartSolve(rf'.guess)
    /\ rf_trace' = <<SolveEvent(0, 0)>>
    /\ rf_pc' = "solve"
    /\ UNCHANGED <<mineral_state, hug, rf_out, coreVars, notRoot>>

InvariantPoint ==
    /\ rf_pc = "idle"
    /\ \E minerals_r1 \in {<<1>>, <<1, 2>>}, minerals_r2 \in {<<2>>, <<2, 1>>} :
           rf' = [NoCall EXCEPT !.fn = "invariant_point",
                                !.minerals = minerals_r1,
                                !.stoichiometry = Stoichiometry(minerals_r1),
                                !.minerals_r2 = minerals_r2,
                                !.stoichiometry_r2 = Stoichiometry(minerals_r2),
                                !.guess = <<1, 1>>]
    /\ solver' = StartSolve(rf'.guess)
    /\ rf_trace' = <<SolveEvent(0, 0)>>
    /\ rf_pc' = "solve"
    /\ UNCHANGED <<mineral_state, hug, rf_out, coreVars, notRoot>>

\* hugoniot up to its first fsolve: the reference state, U_ref, V_ref, the
\* two arrays of np.empty_like(pressures).
Hugoniot ==
    /\ rf_pc = "idle"
    /\ \E T_ref \in Temperatures, pressures \in PressureLists,
          reference_mineral \in {0, 1, 2} :
           rf' = [NoCall EXCEPT !.fn = "hugoniot", !.mineral = 1,
                                !.reference_mineral = reference_mineral,
                                !.P_ref = 1, !.T_ref = T_ref,
                                !.pressures = List(pressures)]
    /\ LET reference == ReferenceMineral(rf')
           n == Len(rf'.pressures)
       IN  /\ mineral_state' = set_state(mineral_state, reference, rf'.P_ref, rf'.T_ref)
           /\ hug' = [U_ref |-> InternalEnergy(mineral_state', reference, rf'.T_ref),
                      V_ref |-> Property("V", mineral_state', reference),
                      temperatures |-> List([k \in 1..n |-> Uninit]),
                      volumes |-> List([k \in 1..n |-> Uninit]),
                      i |-> IF n = 0 THEN 0 ELSE 1]
           /\ IF n = 0
              THEN /\ rf_pc' = "done"
                   /\ solver' = solver
                   /\ rf_trace' = <<SetEvent(reference, rf'.P_ref, rf'.T_ref)>>
                   /\ rf_out' = [raised |-> "",
                                 value |-> <<hug'.temperatures, hug'.volumes>>]
              ELSE /\ rf_pc' = "solve"
                   /\ solver' = StartSolve(<<rf'.T_ref>>)
                   /\ rf_trace' = <<SetEvent(reference, rf'.P_ref, rf'.T_ref),
                                    SolveEvent(1, rf'.pressures[1])>>
                   /\ rf_out' = rf_out
    /\ UNCHANGED <<coreVars, notRoot>>

\* The points fsolve may try: any of the right dimension.
TrialPoints(call) ==
    IF call.fn = "invariant_point"
    THEN {<<P, T>> : P \in TrialValues, T \in TrialValues}
    ELSE {<<v>> : v \in TrialValues}

\* fsolve calls func: first at x0, then at the points it chooses; each point
\* it either takes as its new iterate x or rejects.
FsolveCallsFunc ==
    /\ rf_pc = "solve"
    /\ solver.nfev < MaxEvals
    /\ \E point \in TrialPoints(rf), accept \in BOOLEAN :
           /\ solver.nfev = 0 => point = solver.x0 /\ accept
           /\ LET ev == Residual(mineral_state, rf, hug, point)
              IN  /\ mineral_state' = ev.minerals
                  /\ solver' = [solver EXCEPT !.nfev = @ + 1, !.last = point,
                                              !.events = ev.events,
                                              !.value = ev.value,
                                              !.x = IF accept THEN point ELSE @]
    /\ UNCHANGED <<rf, rf_pc, hug, rf_trace, rf_out, coreVars, notRoot>>

\* fsolve returns, converged or not, and the caller's code goes on: the
\* three equilibrium finders return; hugoniot stores temperatures[i] and
\* volumes[i] and enters the next solve or returns.
FsolveReturns ==
    /\ rf_pc = "solve"
    /\ solver.nfev >= 1
    /\ \E converged \in BOOLEAN :
         LET r == FsolveResult(solver.x, converged)
             temperatures == [hug.temperatures EXCEPT ![hug.i] = r.x[1]]
             volumes == [hug.volumes EXCEPT ![hug.i] =
                            Property("V", mineral_state, rf.mineral)]
         IN  /\ rf_trace' = Append(rf_trace, <<"returned", hug.i, converged, solver.x>>)
                            \o (IF r.raised = "" /\ rf.fn = "hugoniot"
                                   /\ hug.i < Len(rf.pressures)
                                THEN <<SolveEvent(hug.i + 1, rf.pressures[hug.i + 1])>>
                                ELSE <<>>)
             /\ IF r.raised # ""
                THEN /\ rf_out' = [raised |-> r.raised, value |-> <<>>]
                     /\ rf_pc' = "done"
                     /\ UNCHANGED <<hug, solver>>
                ELSE IF rf.fn = "hugoniot"
                THEN /\ hug' = [hug EXCEPT !.temperatures = temperatures,
                                           !.volumes = volumes,
                                           !.i = IF @ < Len(rf.pressures) THEN @ + 1 ELSE @]
                     /\ IF hug.i < Len(rf.pressures)
                        THEN /\ solver' = StartSolve(<<rf.T_ref>>)
                             /\ UNCHANGED <<rf_pc, rf_out>>
                        ELSE /\ rf_pc' = "done"
                             /\ rf_out' = [raised |-> "",
                                           value |-> <<temperatures, volumes>>]
                             /\ solver' = solver
                ELSE /\ rf_out' = [raised |-> "",
                                   value |-> IF rf.fn = "invariant_point"
                                             THEN <<r.x[1], r.x[2]>> ELSE r.x[1]]
                     /\ rf_pc' = "done"
                     /\ UNCHANGED <<hug, solver>>
    /\ UNCHANGED <<rf, mineral_state, coreVars, notRoot>>

InitRoot == IdleDict /\ IdleSite /\ IdleChem /\ IdleLater
NextRoot ==
    \/ EquilibriumPressure \/ EquilibriumTemperature \/ InvariantPoint
    \/ Hugoniot \/ FsolveCallsFunc \/ FsolveReturns
SpecRoot == InitRoot /\ [][NextRoot]_vars

----------------------------------------------------------------------------
(* Two root-finder calls at the same time *)

\* The mineral instance thread t passes to its call.
InstanceOf(t) == IF sharing = "separate" THEN t ELSE 1

\* Thread t calls a root finder, taking the callers' lock first if they
\* use one.
ThreadCalls(t) ==
    /\ threads[t].pc = "idle"
    /\ sharing = "locked" => lock = 0
    /\ lock' = IF sharing = "locked" THEN t ELSE lock
    /\ \E fn \in {"equilibrium_pressure", "hugoniot"} :
           threads' = [threads EXCEPT ![t] =
                          [NoThread EXCEPT !.pc = "set", !.fn = fn, !.m = InstanceOf(t)]]
    /\ UNCHANGED <<sharing, instances, coreVars, notConc>>

\* The residual function of t's call runs mineral.set_state at the next
\* trial point; thread t solves at temperature (or pressure) t.
ThreadSetsState(t) ==
    /\ threads[t].pc = "set"
    /\ threads[t].evals < MaxEvals
    /\ \E v \in TrialValues :
           LET P == IF threads[t].fn = "hugoniot" THEN t ELSE v
               T == IF threads[t].fn = "hugoniot" THEN v ELSE t
           IN  /\ instances' = set_state(instances, threads[t].m, P, T)
               /\ threads' = [threads EXCEPT ![t].pc = "read",
                                              ![t].point = <<P, T>>,
                                              ![t].evals = @ + 1,
                                              ![t].reads = ReadsOf(threads[t].fn)]
    /\ UNCHANGED <<sharing, lock, coreVars, notConc>>

\* It reads the next property of the mineral, in whatever state the
\* mineral is by now.
ThreadReads(t) ==
    /\ threads[t].pc = "read"
    /\ LET value == Property(Head(threads[t].reads), instances, threads[t].m)
       IN  threads' = [threads EXCEPT
                          ![t].value = value,
                          ![t].stale = @ \/ <<value[3], value[4]>> # threads[t].point,
                          ![t].reads = Tail(@),
                          ![t].pc = IF Tail(threads[t].reads) = <<>> THEN "set" ELSE "read"]
    /\ UNCHANGED <<sharing, instances, lock, coreVars, notConc>>

\* fsolve returns and with it the call; the lock is released.
ThreadReturns(t) ==
    /\ threads[t].pc = "set"
    /\ threads[t].evals >= 1
    /\ threads' = [threads EXCEPT ![t].pc = "done"]
    /\ lock' = IF lock = t THEN 0 ELSE lock
    /\ UNCHANGED <<sharing, instances, coreVars, notConc>>

InitConc ==
    /\ IdleDict /\ IdleSite /\ IdleChem /\ SharingChosen
    /\ sharing \in {"shared", "separate", "locked"}
NextConc ==
    \E t \in Threads :
        ThreadCalls(t) \/ ThreadSetsState(t) \/ ThreadReads(t) \/ ThreadReturns(t)
SpecConc == InitConc /\ [][NextConc]_vars

----------------------------------------------------------------------------
(* What the caller wrote, read off src: the reference for the site claims *)

\* The elements of q in order, each once, at its first occurrence.
FirstOccurrences(q) ==
    SelectSeq([i \in 1..Len(q) |-> <<i, q[i]>>],
              LAMBDA p : \A j \in 1..(p[1] - 1) : q[j] # p[2])

\* The species symbols written in site s, endmember by endmember, left to right.
WrittenAtSite(s) ==
    Concat([m \in 1..Len(src) |->
               [k \in 1..Len(src[m][s].species) |-> src[m][s].species[k].sym]])

\* The (site, species) pairs, grouped by site, first seen first.
WrittenColumns ==
    Concat([s \in 1..Len(src[1]) |->
               LET first == FirstOccurrences(WrittenAtSite(s))
               IN  [k \in 1..Len(first) |-> <<s, first[k][2]>>]])

\* The proportion formula m writes for species sym in site s, 0 if it writes none.
WrittenProportion(m, s, sym) ==
    LET sp == src[m][s].species
    IN  IF \E k \in 1..Len(sp) : sp[k].sym = sym
        THEN sp[CHOOSE k \in 1..Len(sp) : sp[k].sym = sym].amt.val
        ELSE Zero

WrittenTotal(m, s) ==
    RSum([k \in 1..Len(src[m][s].species) |-> src[m][s].species[k].amt.val])

WrittenSpecies ==
    UNION {{fm[s].species[k].sym : k \in 1..Len(fm[s].species)} :
           fm \in Range(src), s \in 1..Len(src[1])}

WrittenElements ==
    UNION {{fm[s].species[k].sym : k \in 1..Len(fm[s].species)}
           \cup {fm[s].post[k].sym : k \in 1..Len(fm[s].post)} :
           fm \in Range(src), s \in 1..Len(src[1])}

\* Atoms of element e in formula m: multiplicity x proportion over the sites
\* (the proportions as written, or normalised to sum to 1 in each site),
\* plus the amounts written after the sites.
WrittenBulk(m, e, normalised) ==
    RSum([s \in 1..Len(src[m]) |->
            RAdd(RMul(src[m][s].mult.val,
                      IF normalised
                      THEN RDiv(WrittenProportion(m, s, e), WrittenTotal(m, s))
                      ELSE WrittenProportion(m, s, e)),
                 RSum([k \in 1..Len(src[m][s].post) |->
                         IF src[m][s].post[k].sym = e
                         THEN src[m][s].post[k].amt.val ELSE Zero]))])

SiteCountsWrittenDiffer == \E m \in 1..Len(src) : Len(src[m]) # Len(src[1])

Processed == site_status = "returned"

\* C1: after process_solution_chemistry, site_names lists the (site, species)
\* pairs grouped by site (letter A for the first site, B for the second) and,
\* within a site, in first-seen order; the columns of endmember_occupancies and
\* site_multiplicities follow the same order, and n_occupancies is the length
\* of site_names.
C1_SiteNamesFirstSeen ==
    Processed =>
        /\ solution_model.site_names =
              [k \in 1..Len(WrittenColumns) |->
                  WrittenColumns[k][2] \o <<"_", ucase[WrittenColumns[k][1]]>>]
        /\ solution_model.n_occupancies = Len(solution_model.site_names)
        /\ \A m \in 1..Len(src) :
              /\ Len(solution_model.endmember_occupancies[m]) = Len(WrittenColumns)
              /\ Len(solution_model.site_multiplicities[m]) = Len(WrittenColumns)
              /\ \A k \in 1..Len(WrittenColumns) :
                    /\ (solution_model.endmember_occupancies[m][k] # Zero) <=>
                          (WrittenProportion(m, WrittenColumns[k][1],
                                             WrittenColumns[k][2]) # Zero)
                    /\ solution_model.site_multiplicities[m][k] =
                          src[m][WrittenColumns[k][1]].mult.val

\* Two endmembers name the species of one site in opposite orders, and the
\* second site's columns follow the first site's.
C1_Witness ==
    /\ Processed
    /\ Len(src) = 2 /\ Len(src[1]) = 2
    /\ src[1][1].species[1].sym = cMg
    /\ src[2][1].species[1].sym = cFe
    /\ Len(src[2][1].species) = 2
    /\ solution_model.site_names =
          <<cMg \o <<"_", "A">>, cFe \o <<"_", "A">>, cFe \o <<"_", "B">>,
            cMg \o <<"_", "B">>>>

\* C2: every row of endmember_occupancies has n_occupancies entries; the
\* entry of endmember m in the column of (site s, species X) is the proportion
\* formula m writes for X in site s (1 when it writes no amount) and 0 when the
\* formula does not name X in site s, also for the endmembers parsed before X
\* was first seen there.
C2_OccupanciesDense ==
    Processed =>
        \A m \in 1..Len(src) :
            /\ Len(solution_model.endmember_occupancies[m]) = solution_model.n_occupancies
            /\ \A k \in 1..Len(WrittenColumns) :
                  /\ k <= Len(solution_model.endmember_occupancies[m])
                  /\ solution_model.endmember_occupancies[m][k] =
                        WrittenProportion(m, WrittenColumns[k][1], WrittenColumns[k][2])

\* The first endmember holds 0 in a column that the second endmember opened.
C2_Witness ==
    /\ Processed
    /\ Len(src) = 2
    /\ \E k \in 1..Len(WrittenColumns) :
          /\ WrittenProportion(1, WrittenColumns[k][1], WrittenColumns[k][2]) = Zero
          /\ WrittenProportion(2, WrittenColumns[k][1], WrittenColumns[k][2]) = <<1, 2>>
          /\ solution_model.endmember_occupancies[1][k] = Zero
          /\ solution_model.endmember_occupancies[2][k] = <<1, 2>>

\* C3: in every column belonging to site s, site_multiplicities[m] holds the
\* multiplicity written after the closing bracket of site s in formula m (1
\* when none is written), and endmember_noccupancies is the elementwise
\* product of the occupancies and the multiplicities.
C3_MultiplicitiesPerSite ==
    Processed =>
        \A m \in 1..Len(src) :
            \A k \in 1..Len(WrittenColumns) :
                /\ k <= Len(solution_model.site_multiplicities[m])
                /\ k <= Len(solution_model.endmember_noccupancies[m])
                /\ solution_model.site_multiplicities[m][k] =
                      src[m][WrittenColumns[k][1]].mult.val
                /\ solution_model.endmember_noccupancies[m][k] =
                      RMul(WrittenProportion(m, WrittenColumns[k][1], WrittenColumns[k][2]),
                           src[m][WrittenColumns[k][1]].mult.val)

\* A site with two species columns repeats its multiplicity, the other site
\* has another one, and one site has no multiplicity written.
C3_Witness ==
    /\ Processed
    /\ Len(src) = 2 /\ Len(src[1]) = 2
    /\ solution_model.site_multiplicities[2] = <<<<1, 2>>, <<1, 2>>, <<1, 1>>, <<1, 1>>>>
    /\ solution_model.site_multiplicities[1] = <<<<3, 1>>, <<3, 1>>, <<2, 1>>, <<2, 1>>>>
    /\ src[2][2].mult = NoAmount

\* C4: the elements written after a site's closing bracket and multiplicity
\* are added to the endmember's bulk formula in solution_formulae, on top of
\* multiplicity x proportion of the species in the brackets.
C4_PostSiteElementsInBulk ==
    Processed =>
        \A m \in 1..Len(src) :
            /\ \A e \in WrittenElements :
                  Get(solution_model.solution_formulae[m], e, Zero) =
                      WrittenBulk(m, e, FALSE)
            /\ Keys(solution_model.solution_formulae[m]) \subseteq WrittenElements

\* C5: when some formula has another number of bracketed sites than the
\* first one, process_solution_chemistry raises and leaves solution_model
\* exactly as it was before the call.
C5_MismatchLeavesModelUntouched ==
    [][(site_status = "none" /\ site_status' # "none" /\ SiteCountsWrittenDiffer)
          => /\ site_status' =
                   "Exception: All formulae must have the same number of distinct sites."
             /\ solution_model' = solution_model]_vars

\* The call has raised on a model that still holds the attributes an earlier
\* call wrote for the shorter formula list.
C5_Witness ==
    /\ site_status = "Exception: All formulae must have the same number of distinct sites."
    /\ SiteCountsWrittenDiffer
    /\ solution_model.has = AttrNames
    /\ Len(solution_model.endmember_occupancies) = 1
    /\ Len(solution_model.formulas) = 2

----------------------------------------------------------------------------
(* The rendered strings, read back by the parser *)

Rendered(variant) ==
    /\ Processed
    /\ render_args.variant = variant
    /\ render_raised = NoError

Reparsed ==
    process_solution_chemistry(NewModel(site_formulae),
                               CHOOSE addr \in FilterAddrs : TRUE).model

\* The entry of endmember m of array a in the column of (site s, species
\* sym) of model, none if the model has no such column.
EntryAt(model, a, m, s, sym, none) ==
    IF s <= Len(model.sites) /\ sym \in Range(model.sites[s])
    THEN a[m][FirstColumn(model.sites, s) + IndexOf(model.sites[s], sym) - 1]
    ELSE none

\* The multiplicity the rendered string of endmember m carries for site s.
RenderedMultiplicity(m, s) ==
    Reparsed.site_multiplicities[m][FirstColumn(Reparsed.sites, s)]

\* C6 as stated: the string rendered for each endmember carries the same
\* element proportions as the input string, the occupancies of every site
\* normalised to sum to 1.
C6_RoundTripElementProportions ==
    Rendered("2D") =>
        \A m \in 1..Len(src) :
            \A a, b \in WrittenElements :
                RMul(Get(Reparsed.solution_formulae[m], a, Zero), WrittenBulk(m, b, TRUE))
                    = RMul(Get(Reparsed.solution_formulae[m], b, Zero), WrittenBulk(m, a, TRUE))

\* C6 as amended: the string rendered for each endmember has the sites of the
\* input string, each with the input's multiplicity and with the input's
\* species in proportions normalised to sum to 1; the elements written
\* outside the brackets are not rendered.
C6_RoundTripSites ==
    Rendered("2D") =>
        /\ Len(site_formulae) = Len(src)
        /\ Reparsed.has = AttrNames
        /\ Reparsed.n_sites = Len(src[1])
        /\ \A m \in 1..Len(src) :
              /\ Count(site_formulae[m], "[") = Len(src[m])
              /\ \A s \in 1..Len(src[1]) :
                    /\ RenderedMultiplicity(m, s) = src[m][s].mult.val
                    /\ \A sym \in WrittenSpecies :
                          EntryAt(Reparsed, Reparsed.endmember_occupancies, m, s, sym, Zero)
                              = RDiv(WrittenProportion(m, s, sym), WrittenTotal(m, s))
              /\ \A e \in WrittenElements :
                    Get(Reparsed.solution_formulae[m], e, Zero) =
                        RSum([s \in 1..Len(src[m]) |->
                                RMul(src[m][s].mult.val,
                                     RDiv(WrittenProportion(m, s, e), WrittenTotal(m, s)))])

\* A formula with proportions 3 and 1 in one site and a formula with elements
\* after its site have been parsed and rendered.
C6_Witness ==
    /\ Rendered("2D")
    /\ src = <<Unnormalised, Forsterite>>
    /\ site_formulae = <<<<"[">> \o cMg \o <<"1", "/", "4">> \o cFe \o <<"3", "/", "4", "]", "2">>,
                         <<"[">> \o cMg \o <<"]", "2">>>>

AcceptedVariants == {"2D", "per_species", "per_site"}

\* The multiplicity that belongs to site s of endmember m in the argument
\* given: the endmember's own in the 2D array, the first endmember's in 1D.
GivenMultiplicity(m, s) ==
    IF render_args.variant = "2D" THEN src[m][s].mult.val ELSE src[1][s].mult.val

RenderedSiteValues ==
    /\ render_raised = NoError
    /\ Len(site_formulae) = Len(src)
    /\ \A m \in 1..Len(src) :
          \A s \in 1..Len(src[1]) : RenderedMultiplicity(m, s) = GivenMultiplicity(m, s)

RenderRefused ==
    /\ render_raised # NoError
    /\ render_raised.text # "IndexError"
    /\ site_formulae = <<>>

MessageNamesShapes ==
    render_raised.shapes = <<render_args.shape, OccArg(solution_model).shape>>

\* C7 as stated: site_multiplicities is accepted per site, per species or as
\* a 2D array of the occupancies' shape, and then every site is rendered with
\* the value belonging to it; for every other shape the call raises before
\* producing any string, with a message that names the mismatched dimensions.
C7_EveryRefusalNamesShapes ==
    (Processed /\ render_args.variant # "none") =>
        IF render_args.variant \in AcceptedVariants
        THEN RenderedSiteValues
        ELSE RenderRefused /\ MessageNamesShapes

\* C7 as amended: the same, except that only the refusal of a 2D array of
\* another shape names the two shapes; the refusal of a 1D array of another
\* length and of an array that is neither 1D nor 2D names no dimension.
C7_RefusalsAndShapes ==
    (Processed /\ render_args.variant # "none") =>
        IF render_args.variant \in AcceptedVariants
        THEN RenderedSiteValues
        ELSE /\ RenderRefused
             /\ IF Len(render_args.shape) = 2
                THEN MessageNamesShapes
                ELSE render_raised.shapes = <<>>

\* A per-site array has been accepted for a model whose first site has two
\* species columns, and the second site is rendered with its own value.
C7_Witness ==
    /\ Rendered("per_site")
    /\ src = <<Mixed, Pyrope>>
    /\ render_args.shape = <<2>>
    /\ RenderedMultiplicity(2, 1) = <<1, 2>>
    /\ RenderedMultiplicity(2, 2) = <<1, 1>>

----------------------------------------------------------------------------
(* The chemical potential claims *)

\* Every element of the endmembers and of the components, in a fixed order.
AllElements == <<cMg, cFe, cSi, cAl, cO>>

\* The composition vector of a formula over AllElements.
Vector(formula) == [e \in 1..Len(AllElements) |-> Get(formula, AllElements[e], Zero)]

EndmemberVectors ==
    LET fs == EndmemberFormulae(assemblage) IN [i \in 1..Len(fs) |-> Vector(fs[i])]

\* The vectors of q at the indices in T, in order.
Pick(q, T) == SelectSeq([i \in 1..Len(q) |-> IF i \in T THEN <<q[i]>> ELSE <<>>],
                        LAMBDA x : x # <<>>)

Unwrap(q) == [i \in 1..Len(q) |-> q[i][1]]

LinearlyIndependent(vs) == Det(Gram(vs)) # Zero

\* b is a linear combination of the vectors vs: some independent selection
\* of them becomes dependent when b joins it.
InSpan(b, vs) ==
    \E T \in SUBSET (1..Len(vs)) :
        LET sel == Unwrap(Pick(vs, T))
        IN  LinearlyIndependent(sel) /\ ~LinearlyIndependent(Append(sel, b))

Called == chem_status # NotCalled

IndependenceMessage ==
    "AssertionError: Endmember compositions do not form an independent set of basis vectors"

\* C8: chemical_potentials raises whenever some requested component is not a
\* linear combination of the endmember compositions of the assemblage,
\* whatever the assemblage; it never returns a potential for it.
C8_UnreachableComponentRaises ==
    Called =>
        ((\E k \in 1..Len(component_formulae) :
              ~InSpan(Vector(component_formulae[k]), EndmemberVectors))
         => chem_status.outcome # "returned")

\* C9: chemical_potentials fails its independence assertion for every
\* assemblage whose endmember composition vectors are linearly dependent; an
\* assemblage passes the check only if they are independent.
C9_DependentAssemblageRejected ==
    Called =>
        (~LinearlyIndependent(EndmemberVectors)
         => chem_status.outcome = IndependenceMessage)

----------------------------------------------------------------------------
(* The compositional array claims *)

\* The amount the mapping d gives element e, 0 when e is not one of its keys.
AmountWritten(d, e) ==
    IF \E k \in 1..Len(d) : d[k][1] = e
    THEN d[CHOOSE k \in 1..Len(d) : d[k][1] = e][2]
    ELSE Zero

\* The keys of all the formulae, formula by formula, in mapping order.
KeysWritten ==
    Concat([i \in 1..Len(array_formulae) |->
               [k \in 1..Len(array_formulae[i]) |-> array_formulae[i][k][1]]])

\* array holds, for every formula i and every element j of elements, the
\* amount formula i gives that element.
HoldsAmounts(array, elements) ==
    /\ Len(array) = Len(array_formulae)
    /\ \A i \in 1..Len(array_formulae) :
          /\ Len(array[i]) = Len(elements)
          /\ \A j \in 1..Len(elements) :
                array[i][j] = AmountWritten(array_formulae[i], elements[j])

----------------------------------------------------------------------------
(* The formula string claim *)

\* The place of key e in IUPAC_element_order, 0 when it is not in the table.
TablePlace(e) ==
    IF \E i \in 1..Len(IUPAC_element_order) : IUPAC_element_order[i] = e
    THEN CHOOSE i \in 1..Len(IUPAC_element_order) : IUPAC_element_order[i] = e
    ELSE 0

\* The entries of the mapping that appear: those whose amount has a
\* magnitude above 1e-12.  An amount n/d of the model has d < 10^12, so its
\* magnitude is at most 1e-12 exactly when n = 0.
Appearing == {k \in 1..Len(string_formula) : string_formula[k][2][1] # 0}

\* Entry a of the mapping is rendered before entry b: table keys in table
\* order, then the other keys in mapping order.
RenderedBefore(a, b) ==
    LET pa == TablePlace(string_formula[a][1])
        pb == TablePlace(string_formula[b][1])
    IN  \/ pa # 0 /\ pb # 0 /\ pa < pb
        \/ pa # 0 /\ pb = 0
        \/ pa = 0 /\ pb = 0 /\ a < b

\* The appearing entries in the order of RenderedBefore.
ExpectedOrder ==
    [r \in 1..Cardinality(Appearing) |->
        CHOOSE k \in Appearing :
            Cardinality({j \in Appearing : RenderedBefore(j, k)}) = r - 1]

\* The bare symbol for an amount within 1e-12 of 1 (in the model: equal to
\* 1), otherwise the symbol followed by the number.
ExpectedPiece(k) ==
    IF string_formula[k][2] = One THEN string_formula[k][1]
    ELSE string_formula[k][1] \o RatStr(string_formula[k][2])

\* C12: formula_to_string renders the keys of IUPAC_element_order first, in
\* the table's order whatever the mapping's key order, then the keys that
\* are not in the table in mapping order; a key whose amount has magnitude at
\* most 1e-12 does not appear and a key whose amount is within 1e-12 of 1
\* appears as the bare symbol.
C12_FormulaToStringOrder ==
    string_call.op = "formula_to_string" =>
        string_call.formula_string =
            Concat([r \in 1..Len(ExpectedOrder) |-> ExpectedPiece(ExpectedOrder[r])])

\* A mapping that iterates Zz, O, Mg with amounts 2, 1 and 0 is rendered
\* with O bare before Zz2, and without the key whose amount is 0.
C12_Witness ==
    /\ string_call.op = "formula_to_string"
    /\ string_formula = <<<<cZz, <<2, 1>>>>, <<cO, One>>, <<cMg, Zero>>>>
    /\ string_call.formula_string = <<"O", "Z", "z", "2">>

----------------------------------------------------------------------------
(* The claim about the caller's objects *)

\* C13: no formula operation changes a mapping or the list it was given,
\* whether it returns or raises, and a mapping it returns is a new object.
C13_InputsNotMutated ==
    [][(obj_call.op = "none" /\ obj_call'.op # "none") =>
          /\ Len(objects') >= Len(objects)
          /\ \A id \in 1..Len(objects) : objects'[id] = objects[id]
          /\ obj_call'.ref # 0 =>
                 /\ obj_call'.ref > Len(objects)
                 /\ obj_call'.ref <= Len(objects')]_vars

\* A sum over two formulae has returned a mapping that holds their atoms.
C13_Witness ==
    /\ obj_call.op = "sum_formulae"
    /\ obj_call.raised = ""
    /\ Len(objects[FormulaList].items) >= 2
    /\ Len(objects[obj_call.ref].items) >= 2

----------------------------------------------------------------------------
(* The root-finder claims *)

IsSet(e) == e[1] = "set_state"
IsSolve(e) == e[1] = "fsolve"
IsReturn(e) == e[1] = "returned"
Solves == SelectSeq(rf_trace, IsSolve)
Returned == SelectSeq(rf_trace, IsReturn)
Done(fn) == rf.fn = fn /\ rf_pc = "done"

\* The mineral the caller means as the reference of hugoniot.
Reference == IF rf.reference_mineral = 0 THEN rf.mineral ELSE rf.reference_mineral

\* C14: hugoniot sets the reference mineral to (P_ref, T_ref) once, before
\* the first solve, and takes U_ref and V_ref from that state; it runs one
\* solve per pressure, in input order, and returns two arrays as long as
\* pressures whose entry i comes from the solve for pressures[i].
C14_HugoniotReferenceAndOrder ==
    rf.fn = "hugoniot" =>
        /\ rf_trace[1] = <<"set_state", Reference, rf.P_ref, rf.T_ref>>
        /\ \A k \in 2..Len(rf_trace) : ~IsSet(rf_trace[k])
        /\ hug.U_ref = <<<<"helmholtz", Reference, rf.P_ref, rf.T_ref>>, rf.T_ref,
                         <<"S", Reference, rf.P_ref, rf.T_ref>>>>
        /\ hug.V_ref = <<"V", Reference, rf.P_ref, rf.T_ref>>
        /\ Len(Solves) <= Len(rf.pressures)
        /\ \A k \in 1..Len(Solves) : Solves[k] = <<"fsolve", k, rf.pressures[k]>>
        /\ rf_pc = "done" =>
               /\ Len(Solves) = Len(rf.pressures)
               /\ Len(Returned) = Len(rf.pressures)
               /\ Len(rf_out.value[1]) = Len(rf.pressures)
               /\ Len(rf_out.value[2]) = Len(rf.pressures)
               /\ \A k \in 1..Len(rf.pressures) :
                      /\ Returned[k][2] = k
                      /\ rf_out.value[1][k] = Returned[k][4][1]
                      /\ rf_out.value[2][k][1] = "V"
                      /\ rf_out.value[2][k][2] = rf.mineral
                      /\ rf_out.value[2][k][3] = rf.pressures[k]

\* hugoniot has returned for two different pressures and a reference
\* mineral of its own.
C14_Witness ==
    /\ Done("hugoniot")
    /\ Len(rf.pressures) = 2
    /\ rf.pressures[1] # rf.pressures[2]
    /\ rf.reference_mineral = 2

\* C15: a finished root-finder call has raised nothing and returned the
\* solver's x and nothing else, whether the solver converged or not.
C15_NoFailureSignal ==
    rf_pc = "done" =>
        /\ rf_out.raised = ""
        /\ DOMAIN rf_out = {"raised", "value"}
        /\ rf.fn \in {"equilibrium_pressure", "equilibrium_temperature"} =>
               rf_out.value = Returned[1][4][1]
        /\ rf.fn = "invariant_point" => rf_out.value = Returned[1][4]
        /\ rf.fn = "hugoniot" =>
               rf_out.value[1] = List([k \in 1..Len(Returned) |-> Returned[k][4][1]])

\* Calls have returned after a solve that did not converge.
C15_Witness ==
    /\ rf_pc = "done"
    /\ rf.fn \in {"equilibrium_pressure", "hugoniot"}
    /\ \E k \in 1..Len(Returned) : ~Returned[k][3]
    /\ \E k \in 1..Len(Returned) : Returned[k][4] # solver.x0

\* The state the residual function is to set for the point fsolve tries.
TrialState ==
    CASE rf.fn = "equilibrium_pressure" -> <<solver.last[1], rf.temperature>>
      [] rf.fn = "equilibrium_temperature" -> <<rf.pressure, solver.last[1]>>
      [] OTHER -> <<solver.last[1], solver.last[2]>>

\* C17: in every residual evaluation of the three equilibrium finders each
\* gibbs is read after a set_state on the same mineral at the trial point,
\* with no other set_state on it in between, also for a mineral listed
\* twice; equilibrium_pressure always passes the caller's temperature and
\* equilibrium_temperature the caller's pressure.
C17_ReadAfterSetState ==
    (rf.fn \in {"equilibrium_pressure", "equilibrium_temperature", "invariant_point"}
       /\ solver.nfev >= 1) =>
        LET events == solver.events
        IN  /\ Len(events) = 2 * (Len(rf.minerals) + Len(rf.minerals_r2))
            /\ \A k \in 1..Len(events) :
                   /\ IsSet(events[k]) =>
                          /\ rf.fn = "equilibrium_pressure" => events[k][4] = rf.temperature
                          /\ rf.fn = "equilibrium_temperature" => events[k][3] = rf.pressure
                   /\ events[k][1] = "gibbs" =>
                          /\ events[k] = <<"gibbs", events[k][2], TrialState[1], TrialState[2]>>
                          /\ \E j \in 1..(k - 1) :
                                 /\ events[j] = <<"set_state", events[k][2],
                                                  TrialState[1], TrialState[2]>>
                                 /\ \A l \in (j + 1)..(k - 1) :
                                        ~(IsSet(events[l]) /\ events[l][2] = events[k][2])

\* equilibrium_pressure with the same mineral listed twice has had its
\* residual evaluated away from the first guess.
C17_Witness ==
    /\ rf.fn = "equilibrium_pressure"
    /\ rf.minerals = <<1, 1>>
    /\ solver.nfev >= 2
    /\ solver.last # solver.x0

\* C18: every volume hugoniot returns is the mineral's volume at
\* (pressures[i], temperatures[i]).
C18_VolumeAtReturnedState ==
    Done("hugoniot") =>
        \A k \in 1..Len(rf.pressures) :
            rf_out.value[2][k] =
                <<"V", rf.mineral, rf.pressures[k], rf_out.value[1][k]>>

----------------------------------------------------------------------------
(* The claim about concurrent calls *)

\* C16: a call reads a mineral in a state it did not set itself only when
\* the two calls share one mineral instance without a lock; with an
\* instance per call, or a lock around each call, no interleaving does.
C16_StaleReadOnlyWhenShared ==
    \A t \in Threads : threads[t].stale => sharing = "shared"

\* Sharing one instance without a lock, a call has read a value at the
\* point the other call set.
C16_Witness ==
    /\ sharing = "shared"
    /\ \E t \in Threads, u \in Threads :
           /\ t # u
           /\ threads[t].stale
           /\ threads[t].value[1] \in {"gibbs", "V"}
           /\ <<threads[t].value[3], threads[t].value[4]>> = threads[u].point

----------------------------------------------------------------------------
(* The claim about malformed formula strings *)

BadPieces == SelectSeq(tokens, LAMBDA piece : piece.kind = "bad")
ReadPieces == SelectSeq(tokens, LAMBDA piece : piece.kind = "token")

RECURSIVE Written(_)
Written(pieces) ==
    IF pieces = <<>> THEN <<>>
    ELSE Accumulate(Written(SubSeq(pieces, 1, Len(pieces) - 1)),
                    pieces[Len(pieces)].name, pieces[Len(pieces)].amount)

\* C19, as stated: dictionarize_formula returns a mapping for every string.
C19_NeverRaises ==
    dict_status # "none" => dict_status = "returned"

\* C19, amended: the characters before the first capital are dropped and
\* the characters between a capital and the first digit after it are part
\* of the key; when the text from that digit on is no number the call
\* raises what Fraction raises for the first such token (ValueError, or
\* ZeroDivisionError for a zero denominator) and returns nothing; else it
\* returns the sum of the tokens.
C19_RaisesOnBadAmount ==
    dict_status # "none" =>
        IF BadPieces # <<>>
        THEN dict_status = BadPieces[1].err /\ f = <<>>
        ELSE dict_status = "returned" /\ f = Written(ReadPieces)

\* A string with leading characters and a token whose amount is no number
\* has been refused.
C19_Witness ==
    /\ dict_status = "ValueError"
    /\ Len(tokens) >= 2
    /\ tokens[1].kind = "lead"

----------------------------------------------------------------------------
(* The flat formula claims *)

\* The amounts of the written tokens that carry symbol sym, added up.
RECURSIVE TokenSum(_, _)
TokenSum(ts, sym) ==
    IF ts = <<>> THEN Zero
    ELSE RAdd(IF Head(ts).sym = sym THEN Head(ts).amt.val ELSE Zero,
              TokenSum(Tail(ts), sym))

TokenSyms(ts) == {ts[i].sym : i \in 1..Len(ts)}

\* C10: for a string of well-formed element tokens dictionarize_formula
\* returns a mapping whose keys are the symbols written and in which each
\* symbol's amount is the sum of the amounts of all tokens carrying it, a
\* token without a written amount counting as exactly 1: repeated symbols
\* accumulate and the order of the tokens does not matter.
C10_DictionarizeSums ==
    dict_status # "none" =>
        /\ dict_status = "returned"
        /\ Keys(f) = TokenSyms(tokens)
        /\ \A i \in 1..Len(tokens) :
              Get(f, tokens[i].sym, Zero) = TokenSum(tokens, tokens[i].sym)

\* A symbol written twice, once without an amount, has been parsed.
C10_Witness ==
    /\ dict_status = "returned"
    /\ \E i, j \in 1..Len(tokens) :
          /\ i < j
          /\ tokens[i].sym = tokens[j].sym
          /\ tokens[i].amt = NoAmount
          /\ tokens[j].amt # NoAmount
          /\ Get(f, tokens[i].sym, Zero) = RAdd(One, tokens[j].amt.val)

====
